---- MODULE Spec2Model ----
(***************************************************************************)
(* Review-to-insight pipeline of app-review-insights.                      *)
(*                                                                         *)
(* One request is followed through one of the route handlers:              *)
(*   "combined" - the combined reviews route (fetch, normalize, insights), *)
(*   "timed"    - its instrumented variant with abort timers,              *)
(*   "insights" - the GET insights route, which obtains its reviews from   *)
(*                the reviews-only route,                                  *)
(*   "post"     - the page that calls the reviews-only route and then the  *)
(*                POST insights route with the reviews it received.        *)
(*                                                                         *)
(* JavaScript strings that the code inspects character by character (the   *)
(* application identifier, the app name) are sequences of one-character    *)
(* strings.  Strings built by template literals (error messages) are       *)
(* sequences of their parts.  An optional JSON field is a sequence of      *)
(* length 0 (absent) or 1 (present).  The LLM content string is a sequence *)
(* of lexical tokens (see ContentTokens).                                  *)
(***************************************************************************)
EXTENDS Integers, Sequences, FiniteSets, TLC

(***************************************************************************)
(* Bounds of the model                                                     *)
(***************************************************************************)
MaxReviews == 2
MaxContentLen == 3
MaxRetries == 4
MaxLoads == 2
MaxBatch == 2
MaxInput == 502
MaxText == 2
MaxSubmits == 2

(***************************************************************************)
(* Character helpers (String.prototype.toUpperCase / toLowerCase, the      *)
(* character class [a-zA-Z0-9])                                            *)
(***************************************************************************)
LowerLetters ==
  <<"a","b","c","d","e","f","g","h","i","j","k","l","m",
    "n","o","p","q","r","s","t","u","v","w","x","y","z">>

UpperLetters ==
  <<"A","B","C","D","E","F","G","H","I","J","K","L","M",
    "N","O","P","Q","R","S","T","U","V","W","X","Y","Z">>

Range(s) == {s[i] : i \in DOMAIN s}

IsAlnum(c) == c \in Range(LowerLetters) \cup Range(UpperLetters) \cup {"0","1","2","3","4","5","6","7","8","9"}

toUpperCase(c) ==
  IF \E i \in 1..26 : LowerLetters[i] = c
    THEN UpperLetters[CHOOSE i \in 1..26 : LowerLetters[i] = c]
    ELSE c

toLowerCase(c) ==
  IF \E i \in 1..26 : UpperLetters[i] = c
    THEN LowerLetters[CHOOSE i \in 1..26 : UpperLetters[i] = c]
    ELSE c

\* s.includes(sub)
Includes(s, sub) ==
  \E i \in 0..(Len(s) - Len(sub)) : SubSeq(s, i + 1, i + Len(sub)) = sub

\* text.split(/[^a-zA-Z0-9]+/): a run of separators splits once; a leading
\* or trailing run yields an empty word.  done holds the finished words,
\* cur the word being read at position i.
RECURSIVE SplitFrom(_, _, _, _)
SplitFrom(s, i, done, cur) ==
  IF i > Len(s) THEN Append(done, cur)
  ELSE IF IsAlnum(s[i]) THEN SplitFrom(s, i + 1, done, Append(cur, s[i]))
  ELSE IF i > 1 /\ ~IsAlnum(s[i - 1]) THEN SplitFrom(s, i + 1, done, cur)
  ELSE SplitFrom(s, i + 1, Append(done, cur), <<>>)

\* word.charAt(0).toUpperCase() + word.slice(1).toLowerCase()
CapWord(w) ==
  IF w = <<>> THEN <<>>
  ELSE <<toUpperCase(Head(w))>> \o [i \in 1..(Len(w) - 1) |-> toLowerCase(w[i + 1])]

\* words.join(' ')
RECURSIVE JoinSpace(_)
JoinSpace(ws) ==
  IF ws = <<>> THEN <<>>
  ELSE IF Len(ws) = 1 THEN ws[1]
  ELSE ws[1] \o <<" ">> \o JoinSpace(Tail(ws))

capitalizeWords(text) ==
  LET words == SplitFrom(text, 1, <<>>, <<>>)
  IN  JoinSpace([i \in 1..Len(words) |-> CapWord(words[i])])

\* index of the last '.' of s (0 when there is none)
LastDot(s) ==
  IF \E i \in DOMAIN s : s[i] = "."
    THEN CHOOSE i \in DOMAIN s : s[i] = "." /\ \A j \in (i + 1)..Len(s) : s[j] # "."
    ELSE 0

formatAppName_noPublisherTable(appId) ==
  IF ~Includes(appId, <<".">>) THEN capitalizeWords(appId)
  ELSE capitalizeWords(SubSeq(appId, LastDot(appId) + 1, Len(appId)))

formatAppName(appId) ==
  IF ~Includes(appId, <<".">>) THEN capitalizeWords(appId)
  ELSE
    LET d == LastDot(appId)
        lastPart == SubSeq(appId, d + 1, Len(appId))
        domain == SubSeq(appId, 1, d - 1)
        cap == capitalizeWords(lastPart)
    IN  IF lastPart = <<>> THEN capitalizeWords(appId)
        ELSE IF domain = <<"c","o","m",".","g","o","o","g","l","e">> THEN <<"G","o","o","g","l","e"," ">> \o cap
        ELSE IF domain = <<"c","o","m",".","f","a","c","e","b","o","o","k">> THEN <<"F","a","c","e","b","o","o","k"," ">> \o cap
        ELSE IF domain = <<"c","o","m",".","a","m","a","z","o","n">> THEN <<"A","m","a","z","o","n"," ">> \o cap
        ELSE IF domain = <<"c","o","m",".","s","p","o","t","i","f","y">> THEN <<"S","p","o","t","i","f","y"," ">> \o cap
        ELSE IF domain = <<"c","o","m",".","n","e","t","f","l","i","x">> THEN <<"N","e","t","f","l","i","x"," ">> \o cap
        ELSE IF Includes(domain, <<"i","n","s","t","a","g","r","a","m">>) THEN <<"I","n","s","t","a","g","r","a","m"," ">> \o cap
        ELSE IF Includes(domain, <<"w","h","a","t","s","a","p","p">>) THEN <<"W","h","a","t","s","A","p","p"," ">> \o cap
        ELSE IF Includes(domain, <<"t","w","i","t","t","e","r">>) \/ Includes(domain, <<"x",".","c","o","m">>)
               THEN <<"T","w","i","t","t","e","r"," ">> \o cap
        ELSE IF Includes(domain, <<"t","i","k","t","o","k">>) THEN <<"T","i","k","T","o","k"," ">> \o cap
        ELSE IF Includes(domain, <<"s","n","a","p","c","h","a","t">>) THEN <<"S","n","a","p","c","h","a","t"," ">> \o cap
        ELSE IF domain = <<"c","o","m",".","d","u","o","l","i","n","g","o">> THEN <<"D","u","o","l","i","n","g","o">>
        ELSE cap

(***************************************************************************)
(* Application identifiers submitted in the model.  The empty sequence     *)
(* stands for a missing or empty appId query parameter (both are falsy).   *)
(***************************************************************************)
Id_spotify == <<"c","o","m",".","s","p","o","t","i","f","y",".","m","u","s","i","c">>
Id_simple == <<"s","i","m","p","l","e","a","p","p">>

AppIds == {<<>>, Id_spotify, Id_simple, <<"i","o",".","M","y","_","a","p","p">>}

(***************************************************************************)
(* Reviews                                                                 *)
(***************************************************************************)
\* generateSampleResponse: the five placeholder reviews.  The date is the
\* day of the request, written TODAY.
SampleReviews ==
  << [id |-> "1", rating |-> 5, text |-> "sample text 1", author |-> "Sample User 1", date |-> "TODAY"],
     [id |-> "2", rating |-> 4, text |-> "sample text 2", author |-> "Sample User 2", date |-> "TODAY"],
     [id |-> "3", rating |-> 3, text |-> "sample text 3", author |-> "Sample User 3", date |-> "TODAY"],
     [id |-> "4", rating |-> 5, text |-> "sample text 4", author |-> "Sample User 4", date |-> "TODAY"],
     [id |-> "5", rating |-> 2, text |-> "sample text 5", author |-> "Sample User 5", date |-> "TODAY"] >>

\* String(n) for the positions that occur
StringOfNat == <<"1","2","3","4","5","6","7","8","9">>

\* v || dflt for an optional string field: absent and "" are falsy
OrElseStr(opt, dflt) ==
  IF opt = <<>> THEN dflt
  ELSE IF opt[1] = "" THEN dflt
  ELSE opt[1]

\* v || dflt for an optional numeric field: absent and 0 are falsy
OrElseNum(opt, dflt) ==
  IF opt = <<>> THEN dflt
  ELSE IF opt[1] = 0 THEN dflt
  ELSE opt[1]

NormalizeOne_noAuthorDefault(review, index) ==
  [ id     |-> OrElseStr(review.id, StringOfNat[index + 1]),
    rating |-> OrElseNum(review.score, 0),
    text   |-> OrElseStr(review.text, ""),
    author |-> OrElseStr(review.userName, ""),
    date   |-> OrElseStr(review.date, "NOW") ]

\* the callback of apiData.reviews.map
NormalizeOne(review, index) ==
  [ id     |-> OrElseStr(review.id, StringOfNat[index + 1]),
    rating |-> OrElseNum(review.score, 0),
    text   |-> OrElseStr(review.text, ""),
    author |-> OrElseStr(review.userName, "Anonymous"),
    date   |-> OrElseStr(review.date, "NOW") ]

Normalize(raws) == [i \in 1..Len(raws) |-> NormalizeOne(raws[i], i - 1)]

(***************************************************************************)
(* The LLM content string and its parser                                   *)
(*                                                                         *)
(* A content string is a sequence of lexical tokens:                       *)
(*   "FO"  the opening fence  ```json\n                                    *)
(*   "FC"  the closing fence  \n```                                        *)
(*   "BB"  the bold marker    **                                           *)
(*   "SP"  a blank                                                         *)
(*   "NUL" the four letters   null                                         *)
(*   "OO"  the text           {"k":"      (an object up to its string)     *)
(*   "OC"  the text           "}          (the end of that object)         *)
(*   "X"   a letter                                                        *)
(* and, in the contents of the parser on its own,                          *)
(*   "FB"  the opening fence without a language tag  ```\n                 *)
(*   "NL"  a line feed                                                     *)
(* "FO", "FC", "FB" and "NL" contain a line terminator, which `.` does not *)
(* match; "SP" and "NL" are white space.                                   *)
(***************************************************************************)
ContentTokens == {"FO", "FC", "BB", "SP", "NUL", "OO", "OC", "X"}


RECURSIVE SeqsUpTo(_, _)
SeqsUpTo(S, n) ==
  IF n = 0 THEN {<<>>}
  ELSE LET shorter == SeqsUpTo(S, n - 1)
       IN  shorter \cup {Append(q, x) : q \in {r \in shorter : Len(r) = n - 1}, x \in S}

\* .replace(/^```json\n|\n```$/g, '')
StripFences(c) ==
  LET a == IF c # <<>> /\ Head(c) = "FO" THEN Tail(c) ELSE c
  IN  IF a # <<>> /\ a[Len(a)] = "FC" THEN SubSeq(a, 1, Len(a) - 1) ELSE a

\* .replace(/\*\*(.*?)\*\*/g, '$1'): each ** is paired with the next ** on
\* the same line and both are dropped; an unpaired ** stays.
RECURSIVE StripBold(_)
StripBold(c) ==
  IF c = <<>> THEN <<>>
  ELSE IF Head(c) # "BB" THEN <<Head(c)>> \o StripBold(Tail(c))
  ELSE LET r == Tail(c)
           closers == {j \in DOMAIN r : r[j] = "BB" /\ \A k \in 1..(j - 1) : r[k] # "BB"}
       IN  IF closers # {} /\ \A j \in closers : \A k \in 1..(j - 1) : r[k] \notin {"FO", "FC", "FB", "NL"}
             THEN LET j == CHOOSE x \in closers : TRUE
                  IN  SubSeq(r, 1, j - 1) \o StripBold(SubSeq(r, j + 1, Len(r)))
             ELSE <<"BB">> \o StripBold(r)

\* .trim()
RECURSIVE TrimLeft(_)
TrimLeft(c) == IF c # <<>> /\ Head(c) \in {"SP", "NL"} THEN TrimLeft(Tail(c)) ELSE c

RECURSIVE TrimRight(_)
TrimRight(c) ==
  IF c # <<>> /\ c[Len(c)] \in {"SP", "NL"} THEN TrimRight(SubSeq(c, 1, Len(c) - 1)) ELSE c

Trim(c) == TrimLeft(TrimRight(c))

cleanedContent(content) == Trim(StripBold(StripFences(content)))

\* JSON values that occur: null, an object {"k": <string>}, and the
\* SyntaxError that JSON.parse throws.
JsonNull == [t |-> "null", s |-> <<>>]
SyntaxError == [t |-> "SyntaxError", s |-> <<>>]

\* JSON.parse of a token sequence.  Blanks around the value are JSON
\* whitespace; inside the string of an object only letters, blanks and
\* asterisks are legal (a quote or a raw line terminator is not).
JSONParse(text) ==
  LET t == Trim(text)
  IN  IF t = <<"NUL">> THEN JsonNull
      ELSE IF /\ Len(t) >= 2
              /\ t[1] = "OO"
              /\ t[Len(t)] = "OC"
              /\ \A i \in 2..(Len(t) - 1) : t[i] \in {"X", "SP", "BB", "NUL"}
             THEN [t |-> "object", s |-> SubSeq(t, 2, Len(t) - 1)]
      ELSE SyntaxError

(***************************************************************************)
(* Network outcomes (the inputs of the handlers)                           *)
(***************************************************************************)
\* raw review records the review source returns in the model
RawFull == [id |-> <<"a">>, score |-> <<5>>, text |-> <<"great">>,
            userName |-> <<"ann">>, date |-> <<"2024-01-01">>]
RawBare == [id |-> <<>>, score |-> <<>>, text |-> <<>>,
            userName |-> <<>>, date |-> <<>>]
RawOdd  == [id |-> <<"2">>, score |-> <<7>>, text |-> <<"">>,
            userName |-> <<"bob">>, date |-> <<>>]

Ok(status) == status >= 200 /\ status <= 299

\* String(response.status)
StatusString(status) ==
  CASE status = 200 -> "200"
    [] status = 400 -> "400"
    [] status = 401 -> "401"
    [] status = 404 -> "404"
    [] status = 500 -> "500"

\* What the fetch of the review source can do.
\*   reject: the fetch promise rejects (network error)
\*   abort : the abort timer fired first (timed variant only)
\*   http  : a response arrived; body says what reading it gives:
\*           "bodyfail" (reading rejects), "text" (a non-2xx error text),
\*           "malformed" (not JSON), "jsonNull" (the JSON value null),
\*           "noReviews" (an object without reviews), "notArray",
\*           "nullElement" (an array holding a null), "array" (reviews)
SrcOutcome(kind, status, body, reviews) ==
  [kind |-> kind, status |-> status, body |-> body, reviews |-> reviews]

SourceOutcomes ==
  {SrcOutcome("reject", 0, "none", <<>>)}
    \cup {SrcOutcome("http", st, b, <<>>) : st \in {404, 500}, b \in {"text", "bodyfail"}}
    \cup {SrcOutcome("http", 200, b, <<>>) :
            b \in {"bodyfail", "malformed", "jsonNull", "noReviews", "notArray", "nullElement"}}
    \cup {SrcOutcome("http", 200, "array", r) : r \in (SeqsUpTo({RawFull, RawBare, RawOdd}, MaxReviews))}

SrcAbort == SrcOutcome("abort", 0, "none", <<>>)

NoSrcOutcome == SrcOutcome("none", 0, "none", <<>>)

\* What the fetch of the LLM endpoint can do.
\*   env (the envelope of a 2xx response): "bodyfail", "unparsable",
\*   "jsonNull", "errorMsg" / "errorNoMsg" (an error object with / without
\*   a message), "noContent" (no choices, no message or no content),
\*   "nonString" (content is a number or an object), "content" (a string).
LlmOutcome(kind, status, env, content) ==
  [kind |-> kind, status |-> status, env |-> env, content |-> content]

LlmOutcomes ==
  {LlmOutcome("reject", 0, "none", <<>>)}
    \cup {LlmOutcome("http", st, e, <<>>) : st \in {401, 500}, e \in {"text", "bodyfail"}}
    \cup {LlmOutcome("http", 200, e, <<>>) :
            e \in {"bodyfail", "unparsable", "jsonNull", "errorMsg", "errorNoMsg",
                   "noContent", "nonString"}}
    \cup {LlmOutcome("http", 200, "content", c) : c \in (SeqsUpTo(ContentTokens, MaxContentLen))}

LlmAbort == LlmOutcome("abort", 0, "none", <<>>)

(***************************************************************************)
(* What the handler remembers of an LLM outcome (a history record for the  *)
(* properties): its kind, status and envelope, and the JSON value that the *)
(* cleaned content parses to.                                              *)
(***************************************************************************)
LlmSeen(o) ==
  [kind |-> o.kind, status |-> o.status, env |-> o.env,
   empty |-> (o.content = <<>>),
   parsed |-> IF o.env = "content" /\ o.content # <<>>
                THEN JSONParse(cleanedContent(o.content))
                ELSE SyntaxError]

NoLlmSeen == [kind |-> "none", status |-> 0, env |-> "none", empty |-> TRUE, parsed |-> SyntaxError]

(***************************************************************************)
(* Error messages                                                          *)
(***************************************************************************)
MsgKeyRequired == <<"Valid DeepSeek API key is required. Please set the DEEPSEEK_API_KEY environment variable in .env.local.">>
MsgNetwork == <<"fetch failed">>
MsgBodyRead == <<"terminated">>
MsgNullEnvelope == <<"Cannot read properties of null (reading 'model')">>
MsgNoContent == <<"No content returned from API">>
MsgParse == <<"Failed to parse the generated insights JSON from API response">>
MsgProvider_nostatus(status, errorText) == <<"DeepSeek API error: ", errorText>>

MsgProvider(status, errorText) == <<"DeepSeek API error: ", StatusString(status), " - ", errorText>>
MsgApiError(message) == <<"API returned error: ", message>>

\* result of an async function: a value, or a thrown Error with a message
Returned(v) == [ok |-> TRUE, value |-> v, message |-> <<>>]
Thrown(m) == [ok |-> FALSE, value |-> JsonNull, message |-> m]

ParseContent_nocontent(content) ==
  LET v == JSONParse(cleanedContent(content))
  IN  IF v = SyntaxError THEN Thrown(MsgNoContent) ELSE Returned(v)

\* the parse of the content string at the end of generateInsightsFromReviews
ParseContent(content) ==
  LET v == JSONParse(cleanedContent(content))
  IN  IF v = SyntaxError THEN Thrown(MsgParse) ELSE Returned(v)

\* generateInsightsFromReviews, from the outcome of its fetch on
generateInsightsFromReviews(o) ==
  IF o.kind = "reject" THEN Thrown(MsgNetwork)
  ELSE IF o.kind = "abort" THEN Thrown(<<"This operation was aborted">>)
  ELSE IF ~Ok(o.status)
    THEN IF o.env = "bodyfail" THEN Thrown(MsgBodyRead)
         ELSE Thrown(MsgProvider(o.status, "error text"))
  ELSE IF o.env = "bodyfail" THEN Thrown(MsgBodyRead)
  ELSE IF o.env = "unparsable" THEN Thrown(<<"Could not parse API response">>)
  ELSE IF o.env = "jsonNull" THEN Thrown(MsgNullEnvelope)
  ELSE IF o.env = "errorMsg" THEN Thrown(MsgApiError("provider message"))
  ELSE IF o.env = "errorNoMsg" THEN Thrown(MsgApiError("Unknown error"))
  ELSE IF o.env = "noContent" THEN Thrown(MsgNoContent)
  ELSE IF o.env = "nonString" THEN Thrown(MsgParse)
  ELSE IF o.content = <<>> THEN Thrown(MsgNoContent)
  ELSE ParseContent(o.content)

(***************************************************************************)
(* Responses                                                               *)
(***************************************************************************)
\* A NextResponse.json(...) value: the HTTP status, the set of fields the
\* body has, and the value of each field (a default where it is absent).
Response(status, fields, appName, reviews, insights, insightError, error) ==
  [status |-> status, fields |-> fields, appName |-> appName, reviews |-> reviews,
   insights |-> insights, insightError |-> insightError, error |-> error]

NoResponse == Response(0, {}, <<>>, <<>>, JsonNull, <<>>, <<>>)

ErrorResponse(status, error) == Response(status, {"error"}, <<>>, <<>>, JsonNull, <<>>, error)

MsgAppIdRequired == <<"App ID is required">>

\* generateSampleResponse of the reviews-only route: no insights field
generateSampleResponseReviewsOnly(appId) ==
  Response(200, {"appName", "reviews", "message"},
           formatAppName(appId), SampleReviews, JsonNull, <<>>, <<>>)

generateSampleResponse_noinsights(appId) ==
  Response(200, {"appName", "reviews", "message"},
           formatAppName(appId), SampleReviews, JsonNull, <<>>, <<>>)

\* generateSampleResponse of the combined reviews route
generateSampleResponse(appId) ==
  Response(200, {"appName", "reviews", "message", "insights"},
           formatAppName(appId), SampleReviews, JsonNull, <<>>, <<>>)

(***************************************************************************)
(* The fetch stage of the reviews routes                                   *)
(***************************************************************************)
\* TRUE when the try block around the fetch ends in its catch clause: the
\* fetch rejects, the status is not ok, the body cannot be read or parsed,
\* or reading apiData.reviews / mapping the records throws.
FetchThrows(o) ==
  \/ o.kind \in {"reject", "abort"}
  \/ o.kind = "http" /\ ~Ok(o.status)
  \/ o.kind = "http" /\ Ok(o.status) /\ o.body \in {"bodyfail", "malformed", "jsonNull", "nullElement"}

\* !apiData.reviews || !Array.isArray(apiData.reviews) || apiData.reviews.length === 0
NoReviewsFound_nocheck(o) == o.body \in {"noReviews", "notArray"}

NoReviewsFound(o) ==
  \/ o.body \in {"noReviews", "notArray"}
  \/ o.body = "array" /\ Len(o.reviews) = 0

\* the const data = { appName, reviews: apiData.reviews.map(...) }
Data(appName, reviews) == [appName |-> appName, reviews |-> reviews]

NoData == Data(<<>>, <<>>)

TransformData(appId, o) == Data(formatAppName(appId), Normalize(o.reviews))

(***************************************************************************)
(* The insight stage of the combined reviews route                         *)
(***************************************************************************)
PlaceholderDeepSeek == "YOUR_DEEPSEEK_API_KEY_HERE"
PlaceholderOpenRouter == "your_openrouter_api_key_here"

\* The keys the environment variable read by a flow can hold: the POST
\* insights route reads OPENROUTER_API_KEY, the others DEEPSEEK_API_KEY.
\* "" stands for an unset or empty key.
ApiKeys(f) ==
  {"", "sk-valid", IF f = "post" THEN PlaceholderOpenRouter ELSE PlaceholderDeepSeek}

\* !DEEPSEEK_API_KEY || DEEPSEEK_API_KEY === 'YOUR_DEEPSEEK_API_KEY_HERE'
DeepSeekKeyMissing_noplaceholder(key) == key = ""

DeepSeekKeyMissing_onlyPlaceholder(key) == key = PlaceholderDeepSeek

DeepSeekKeyMissing(key) == key = "" \/ key = PlaceholderDeepSeek

\* reviews.slice(0, 500)
SampleCap == 500

Slice_offbyone(reviews, cap) ==
  SubSeq(reviews, 1, IF Len(reviews) < cap + 1 THEN Len(reviews) ELSE cap + 1)

Slice(reviews, cap) ==
  SubSeq(reviews, 1, IF Len(reviews) < cap THEN Len(reviews) ELSE cap)

\* the request that generateInsightsFromReviews sends to the LLM endpoint
LlmRequest(appName, reviews, cap) == [appName |-> appName, reviews |-> Slice(reviews, cap)]

\* the catch (genError) clause of the combined route
InsightErrorOf(message) ==
  <<"Failed to generate AI insights: ">> \o message \o <<". Reviews are still available.">>

\* The part of the combined route after the insight stage: r is the result
\* of the try block (the insights, or the Error thrown in it).
CombinedResponse_rethrow(appId, data, r, extra) ==
  IF r.ok
    THEN Response(200, {"appName", "reviews", "insights"} \cup extra,
                  data.appName, data.reviews, r.value, <<>>, <<>>)
    ELSE generateSampleResponse(appId)

CombinedResponse_finally(appId, data, r, extra) ==
  Response(200, {"appName", "reviews", "insights", "insightError"} \cup extra,
           data.appName, data.reviews,
           IF r.ok THEN r.value ELSE JsonNull,
           InsightErrorOf(r.message), <<>>)

CombinedResponse(appId, data, r, extra) ==
  LET insights == IF r.ok THEN r.value ELSE JsonNull
      insightError == IF r.ok THEN <<>> ELSE InsightErrorOf(r.message)
  IN  Response(200,
               {"appName", "reviews", "insights"} \cup extra
                 \cup (IF insightError # <<>> THEN {"insightError"} ELSE {}),
               data.appName, data.reviews, insights, insightError, <<>>)

(***************************************************************************)
(* State                                                                   *)
(***************************************************************************)
VARIABLES
  flow,         \* which handler serves the request
  appId,        \* the appId query parameter
  apiKey,       \* the LLM API key of the environment
  pc,           \* where the request is: "start", "awaitSource", "awaitReviews",
                \* "awaitLLM", "done"
  data,         \* the handler's normalized batch, once the fetch stage succeeded
  resp,         \* the response the handler returned
  timers,       \* abort timers that are armed and not cleared
  srcCalls,     \* number of requests sent to the review source
  llmRequests,  \* the requests sent to the LLM endpoint, in order
  stage,        \* how far the insight stage got: "none", "entered", "keyOk"
  srcSeen,      \* the outcome of the review fetch
  llmSeen,      \* what came back from the LLM endpoint
  rw,           \* the running call of fetchWithRetry
  page,         \* the state of the page that loads insights from an effect
  stall,        \* the upstream call that never settles, if any
  conc,         \* the locals of two concurrent requests of the combined route
  prompt        \* what the prompt builder computed

\* the variables of one request to a route handler
routeVars == <<flow, appId, apiKey, pc, data, resp, timers, srcCalls, llmRequests,
               stage, srcSeen, llmSeen>>

\* the variables of the other components
otherVars == <<rw, page, stall, conc, prompt>>

vars == <<routeVars, otherVars>>

Flows == {"combined", "timed", "insights", "post"}

\* no call of fetchWithRetry is running
NoRetry ==
  [pc |-> "idle", url |-> "none", retries |-> 0, delay |-> 0, requests |-> 0,
   waits |-> <<>>, errors |-> <<>>, status |-> 0, thrown |-> <<>>,
   retries0 |-> 0, delay0 |-> 0]

\* The page before a submit.  reviewsOf and insightsOf name the app that the
\* displayed reviews and insights were requested for; submits and loads
\* count the submits and the runs of loadInsights since the last submit;
\* late is a run of loadInsights that a later submit found in flight (its
\* call of fetchWithRetry and the app ID it was called with).
NoPage ==
  [pc |-> "idle", appId |-> <<>>, reviewsData |-> FALSE, insights |-> FALSE,
   error |-> <<>>, isLoading |-> FALSE, isGeneratingInsights |-> FALSE,
   loads |-> 0, reviewsFetched |-> FALSE, submits |-> 0,
   reviewsOf |-> <<>>, insightsOf |-> <<>>, late |-> [w |-> NoRetry, appId |-> <<>>]]

\* the prompt builder has not run
NoPrompt ==
  [appName |-> <<>>, reviewsForAnalysis |-> <<>>, ratingCounts |-> <<0, 0, 0, 0, 0>>,
   avgRating |-> [num |-> 0, den |-> 1], avgText |-> ""]

\* the components that take no part in a request to a route handler are idle
OthersIdle ==
  /\ rw = NoRetry
  /\ page = NoPage
  /\ stall = "none"
  /\ conc = "none"
  /\ prompt = NoPrompt

\* no request to a route handler is running
RouteIdle ==
  /\ flow = "none"
  /\ appId = <<>>
  /\ apiKey = ""
  /\ pc = "idle"
  /\ data = [appName |-> <<>>, reviews |-> <<>>]
  /\ resp = NoResponse
  /\ timers = {}
  /\ srcCalls = 0
  /\ llmRequests = <<>>
  /\ stage = "none"
  /\ srcSeen = NoSrcOutcome
  /\ llmSeen = NoLlmSeen

Init ==
  /\ OthersIdle
  /\ flow \in Flows
  /\ appId \in AppIds
  /\ apiKey \in ApiKeys(flow)
  /\ pc = "start"
  /\ data = NoData
  /\ resp = NoResponse
  /\ timers = {}
  /\ srcCalls = 0
  /\ llmRequests = <<>>
  /\ stage = "none"
  /\ srcSeen = NoSrcOutcome
  /\ llmSeen = NoLlmSeen

(***************************************************************************)
(* The combined reviews route (GET /api/reviews)                           *)
(***************************************************************************)
\* entry of the handler up to the await of the review-source fetch
GET_Start ==
  /\ flow = "combined"
  /\ pc = "start"
  /\ IF appId = <<>>
       THEN /\ resp' = ErrorResponse(400, MsgAppIdRequired)
            /\ pc' = "done"
            /\ srcCalls' = srcCalls
       ELSE /\ pc' = "awaitSource"
            /\ srcCalls' = srcCalls + 1
            /\ resp' = resp
  /\ UNCHANGED <<flow, appId, apiKey, data, timers, llmRequests, stage, srcSeen, llmSeen>>
  /\ UNCHANGED otherVars

\* from the settling of the review-source fetch to the next await or return
GET_SourceResponds ==
  /\ flow = "combined"
  /\ pc = "awaitSource"
  /\ \E o \in SourceOutcomes :
       /\ srcSeen' = o
       /\ IF FetchThrows(o) \/ NoReviewsFound(o)
            THEN /\ resp' = generateSampleResponse(appId)
                 /\ pc' = "done"
                 /\ UNCHANGED <<data, llmRequests, stage>>
            ELSE LET d == TransformData(appId, o) IN
                 /\ data' = d
                 /\ IF Len(d.reviews) > 0
                      THEN IF DeepSeekKeyMissing(apiKey)
                             THEN /\ stage' = "entered"
                                  /\ resp' = CombinedResponse(appId, d, Thrown(MsgKeyRequired), {})
                                  /\ pc' = "done"
                                  /\ UNCHANGED llmRequests
                             ELSE /\ stage' = "keyOk"
                                  /\ llmRequests' = Append(llmRequests, LlmRequest(d.appName, d.reviews, SampleCap))
                                  /\ pc' = "awaitLLM"
                                  /\ UNCHANGED resp
                      ELSE /\ resp' = CombinedResponse(appId, d, Returned(JsonNull), {})
                           /\ pc' = "done"
                           /\ UNCHANGED <<llmRequests, stage>>
  /\ UNCHANGED <<flow, appId, apiKey, timers, srcCalls, llmSeen>>
  /\ UNCHANGED otherVars

\* from the settling of the LLM fetch to the return of the handler
GET_LlmResponds_nocatch ==
  /\ flow = "combined"
  /\ pc = "awaitLLM"
  /\ \E o \in LlmOutcomes :
       LET r == generateInsightsFromReviews(o) IN
       /\ llmSeen' = LlmSeen(o)
       /\ IF r.ok
            THEN resp' = CombinedResponse(appId, data, r, {}) /\ pc' = "done"
            ELSE resp' = resp /\ pc' = "crashed"
  /\ UNCHANGED <<flow, appId, apiKey, data, timers, srcCalls, llmRequests, stage, srcSeen>>
  /\ UNCHANGED otherVars

GET_LlmResponds ==
  /\ flow = "combined"
  /\ pc = "awaitLLM"
  /\ \E o \in LlmOutcomes :
       /\ llmSeen' = LlmSeen(o)
       /\ resp' = CombinedResponse(appId, data, generateInsightsFromReviews(o), {})
  /\ pc' = "done"
  /\ UNCHANGED <<flow, appId, apiKey, data, timers, srcCalls, llmRequests, stage, srcSeen>>
  /\ UNCHANGED otherVars

(***************************************************************************)
(* The timed variant of the combined reviews route: the same stages, each  *)
(* fetch guarded by an abort timer of 120 s.                               *)
(***************************************************************************)
\* the timing fields the timed variant adds to its result
TimingFields(r) == {"fetchTiming"} \cup (IF r.ok THEN {"insightsTiming"} ELSE {})

TimedGET_Start ==
  /\ flow = "timed"
  /\ pc = "start"
  /\ IF appId = <<>>
       THEN /\ resp' = ErrorResponse(400, MsgAppIdRequired)
            /\ pc' = "done"
            /\ UNCHANGED <<srcCalls, timers>>
       ELSE /\ timers' = timers \cup {"src"}
            /\ pc' = "awaitSource"
            /\ srcCalls' = srcCalls + 1
            /\ resp' = resp
  /\ UNCHANGED <<flow, appId, apiKey, data, llmRequests, stage, srcSeen, llmSeen>>
  /\ UNCHANGED otherVars

\* The fetch settles (or its timer fires and aborts it).  clearTimeout runs
\* only when the fetch resolved; a timer that fired is no longer pending.
TimedGET_SourceSettles(o) ==
  /\ flow = "timed"
  /\ pc = "awaitSource"
  /\ srcSeen' = o
  /\ LET cleared == IF o.kind \in {"http", "abort"} THEN timers \ {"src"} ELSE timers IN
     IF FetchThrows(o) \/ NoReviewsFound(o)
       THEN /\ resp' = generateSampleResponse(appId)
            /\ pc' = "done"
            /\ timers' = cleared
            /\ UNCHANGED <<data, llmRequests, stage>>
       ELSE LET d == TransformData(appId, o) IN
            /\ data' = d
            /\ IF Len(d.reviews) > 0
                 THEN IF DeepSeekKeyMissing(apiKey)
                        THEN /\ stage' = "entered"
                             /\ resp' = CombinedResponse(appId, d, Thrown(MsgKeyRequired),
                                                         TimingFields(Thrown(MsgKeyRequired)))
                             /\ pc' = "done"
                             /\ timers' = cleared
                             /\ UNCHANGED llmRequests
                        ELSE /\ stage' = "keyOk"
                             /\ llmRequests' = Append(llmRequests, LlmRequest(d.appName, d.reviews, SampleCap))
                             /\ timers' = cleared \cup {"llm"}
                             /\ pc' = "awaitLLM"
                             /\ UNCHANGED resp
                 ELSE /\ resp' = CombinedResponse(appId, d, Returned(JsonNull), {"fetchTiming"})
                      /\ pc' = "done"
                      /\ timers' = cleared
                      /\ UNCHANGED <<llmRequests, stage>>
  /\ UNCHANGED <<flow, appId, apiKey, srcCalls, llmSeen>>
  /\ UNCHANGED otherVars

TimedGET_SourceResponds == \E o \in SourceOutcomes \cup {SrcAbort} : TimedGET_SourceSettles(o)

\* The LLM fetch settles (or its timer aborts it); clearTimeout runs after
\* the fetch resolved and again in the catch clause.
TimedGET_LlmSettles(o) ==
  /\ flow = "timed"
  /\ pc = "awaitLLM"
  /\ LET r == generateInsightsFromReviews(o) IN
       /\ llmSeen' = LlmSeen(o)
       /\ resp' = CombinedResponse(appId, data, r, TimingFields(r))
  /\ timers' = timers \ {"llm"}
  /\ pc' = "done"
  /\ UNCHANGED <<flow, appId, apiKey, data, srcCalls, llmRequests, stage, srcSeen>>
  /\ UNCHANGED otherVars

TimedGET_LlmResponds == \E o \in LlmOutcomes \cup {LlmAbort} : TimedGET_LlmSettles(o)

(***************************************************************************)
(* The reviews-only route (GET /api/reviews without the insight stage),    *)
(* as a function of the outcome of its one fetch                           *)
(***************************************************************************)
ReviewsRouteGET(id, o) ==
  IF id = <<>> THEN ErrorResponse(400, MsgAppIdRequired)
  ELSE IF FetchThrows(o) \/ NoReviewsFound(o) THEN generateSampleResponseReviewsOnly(id)
  ELSE LET d == TransformData(id, o)
       IN  Response(200, {"appName", "reviews"}, d.appName, d.reviews, JsonNull, <<>>, <<>>)

(***************************************************************************)
(* The GET insights route (GET /api/insights)                              *)
(***************************************************************************)
InsightsCap == 100

MsgNoReviews == <<"No reviews found for this app ID">>

InsightsGET_Start ==
  /\ flow = "insights"
  /\ pc = "start"
  /\ IF appId = <<>>
       THEN /\ resp' = ErrorResponse(400, MsgAppIdRequired)
            /\ pc' = "done"
       ELSE /\ pc' = "awaitReviews"
            /\ resp' = resp
  /\ UNCHANGED <<flow, appId, apiKey, data, timers, srcCalls, llmRequests, stage, srcSeen, llmSeen>>
  /\ UNCHANGED otherVars

\* the result of the route once generateInsightsFromReviews settled with r
InsightsGETResponse(r) ==
  IF r.ok
    THEN Response(200, {"insights"}, <<>>, <<>>, r.value, <<>>, <<>>)
    ELSE ErrorResponse(500, <<"Failed to generate AI insights: ">> \o r.message)

\* the internal call of the reviews route settles
InsightsGET_ReviewsResponds ==
  /\ flow = "insights"
  /\ pc = "awaitReviews"
  /\ \/ /\ resp' = ErrorResponse(500, MsgNetwork)
        /\ pc' = "done"
        /\ UNCHANGED <<data, srcCalls, llmRequests, stage, srcSeen>>
     \/ \E o \in SourceOutcomes :
          LET reviewsResponse == ReviewsRouteGET(appId, o)
              reviewsData == Data(reviewsResponse.appName, reviewsResponse.reviews)
          IN  /\ srcSeen' = o
              /\ srcCalls' = srcCalls + 1
              /\ IF ~Ok(reviewsResponse.status)
                   THEN /\ resp' = ErrorResponse(500, <<"Reviews API error: ",
                                                       StatusString(reviewsResponse.status)>>)
                        /\ pc' = "done"
                        /\ UNCHANGED <<data, llmRequests, stage>>
                   ELSE IF Len(reviewsData.reviews) = 0
                   THEN /\ resp' = ErrorResponse(404, MsgNoReviews)
                        /\ pc' = "done"
                        /\ UNCHANGED <<data, llmRequests, stage>>
                   ELSE /\ data' = reviewsData
                        /\ IF DeepSeekKeyMissing(apiKey)
                             THEN /\ stage' = "entered"
                                  /\ resp' = InsightsGETResponse(Thrown(MsgKeyRequired))
                                  /\ pc' = "done"
                                  /\ UNCHANGED llmRequests
                             ELSE /\ stage' = "keyOk"
                                  /\ llmRequests' = Append(llmRequests,
                                        LlmRequest(reviewsData.appName, reviewsData.reviews, InsightsCap))
                                  /\ pc' = "awaitLLM"
                                  /\ UNCHANGED resp
  /\ UNCHANGED <<flow, appId, apiKey, timers, llmSeen>>
  /\ UNCHANGED otherVars

InsightsGET_LlmResponds ==
  /\ flow = "insights"
  /\ pc = "awaitLLM"
  /\ \E o \in LlmOutcomes :
       /\ llmSeen' = LlmSeen(o)
       /\ resp' = InsightsGETResponse(generateInsightsFromReviews(o))
  /\ pc' = "done"
  /\ UNCHANGED <<flow, appId, apiKey, data, timers, srcCalls, llmRequests, stage, srcSeen>>
  /\ UNCHANGED otherVars

(***************************************************************************)
(* The split flow of the page: handleSubmit calls the reviews-only route   *)
(* and generateInsights posts the reviews to POST /api/insights            *)
(***************************************************************************)
MsgPostPrefix == <<"Failed to generate insights: ">>
MsgPostParse == <<"Failed to parse API response as JSON">>

\* the POST route from the settling of its fetch on
InsightsPOSTResponse(o) ==
  IF o.kind = "reject" THEN ErrorResponse(500, MsgPostPrefix \o MsgNetwork)
  ELSE IF ~Ok(o.status)
    THEN IF o.env = "bodyfail" THEN ErrorResponse(500, MsgPostPrefix \o MsgBodyRead)
         ELSE ErrorResponse(500, MsgPostPrefix \o <<"OpenRouter API error: ", StatusString(o.status)>>)
  ELSE IF o.env = "bodyfail" THEN ErrorResponse(500, MsgPostPrefix \o MsgBodyRead)
  ELSE IF o.env = "unparsable" THEN ErrorResponse(500, MsgPostPrefix \o <<"Unexpected token">>)
  ELSE IF o.env = "jsonNull" THEN ErrorResponse(500, MsgPostPrefix \o MsgNullEnvelope)
  ELSE IF o.env \in {"errorMsg", "errorNoMsg", "noContent"}
    THEN ErrorResponse(500, MsgPostPrefix \o MsgNoContent)
  ELSE IF o.env = "nonString" THEN ErrorResponse(500, MsgPostParse)
  ELSE IF o.content = <<>> THEN ErrorResponse(500, MsgPostPrefix \o MsgNoContent)
  ELSE LET v == JSONParse(cleanedContent(o.content))
       IN  IF v = SyntaxError THEN ErrorResponse(500, MsgPostParse)
           ELSE Response(200, {"insights"}, <<>>, <<>>, v, <<>>, <<>>)

\* handleSubmit up to the await of the reviews route
Page_Start ==
  /\ flow = "post"
  /\ pc = "start"
  /\ pc' = "awaitReviews"
  /\ UNCHANGED <<flow, appId, apiKey, data, resp, timers, srcCalls, llmRequests, stage, srcSeen, llmSeen>>
  /\ UNCHANGED otherVars

\* The reviews route answers the page; with reviews in hand the page posts
\* them to the insights route, which runs up to the await of its LLM fetch.
Page_ReviewsResponds ==
  /\ flow = "post"
  /\ pc = "awaitReviews"
  /\ \/ /\ pc' = "done"
        /\ UNCHANGED <<data, resp, srcCalls, llmRequests, stage, srcSeen>>
     \/ \E o \in SourceOutcomes :
          LET response == ReviewsRouteGET(appId, o) IN
          /\ srcSeen' = IF appId = <<>> THEN srcSeen ELSE o
          /\ srcCalls' = IF appId = <<>> THEN srcCalls ELSE srcCalls + 1
          /\ IF ~Ok(response.status) \/ Len(response.reviews) = 0
               THEN /\ pc' = "done"
                    /\ UNCHANGED <<data, resp, llmRequests, stage>>
               ELSE /\ data' = Data(response.appName, response.reviews)
                    /\ IF apiKey = "" \/ apiKey = PlaceholderOpenRouter
                         THEN /\ stage' = "entered"
                              /\ resp' = ErrorResponse(400, <<"Valid OpenRouter API key is required. Please set the OPENROUTER_API_KEY environment variable.">>)
                              /\ pc' = "done"
                              /\ UNCHANGED llmRequests
                         ELSE IF response.appName = <<>>
                         THEN /\ stage' = "keyOk"
                              /\ resp' = ErrorResponse(400, <<"Valid app name and reviews array are required">>)
                              /\ pc' = "done"
                              /\ UNCHANGED llmRequests
                         ELSE /\ stage' = "keyOk"
                              /\ llmRequests' = Append(llmRequests,
                                    LlmRequest(response.appName, response.reviews, SampleCap))
                              /\ pc' = "awaitLLM"
                              /\ UNCHANGED resp
  /\ UNCHANGED <<flow, appId, apiKey, timers, llmSeen>>
  /\ UNCHANGED otherVars

InsightsPOST_LlmResponds ==
  /\ flow = "post"
  /\ pc = "awaitLLM"
  /\ \E o \in LlmOutcomes :
       /\ llmSeen' = LlmSeen(o)
       /\ resp' = InsightsPOSTResponse(o)
  /\ pc' = "done"
  /\ UNCHANGED <<flow, appId, apiKey, data, timers, srcCalls, llmRequests, stage, srcSeen>>
  /\ UNCHANGED otherVars

Next ==
  \/ GET_Start
  \/ GET_SourceResponds
  \/ GET_LlmResponds
  \/ TimedGET_Start
  \/ TimedGET_SourceResponds
  \/ TimedGET_LlmResponds
  \/ InsightsGET_Start
  \/ InsightsGET_ReviewsResponds
  \/ InsightsGET_LlmResponds
  \/ Page_Start
  \/ Page_ReviewsResponds
  \/ InsightsPOST_LlmResponds

Spec == Init /\ [][Next]_vars

(***************************************************************************)
(* fetchWithRetry: the retry wrapper of the page                           *)
(***************************************************************************)
DefaultRetries == 3
DefaultDelay == 1000

\* what one fetch of the wrapper can do: reject, or answer with a status
RetryOutcome(kind, status) == [kind |-> kind, status |-> status]

RetryOutcomes ==
  {RetryOutcome("reject", 0)} \cup {RetryOutcome("http", st) : st \in {200, 404, 500}}

\* if (retries <= 1) throw error
LastAttempt_offbyone(retries) == retries <= 0

LastAttempt(retries) == retries <= 1

\* the call fetchWithRetry(url, options, retries, delay) up to its await of
\* the fetch
fetchWithRetry_Call(url, retries, delay) ==
  [NoRetry EXCEPT !.pc = "fetching", !.url = url, !.retries = retries, !.delay = delay,
                  !.requests = 1, !.retries0 = retries, !.delay0 = delay]

\* the fetch of the running invocation settles with o: return the response,
\* throw the error of this attempt, or start the timer of the backoff
fetchWithRetry_Settled(w, o) ==
  IF o.kind = "http" /\ Ok(o.status)
    THEN [w EXCEPT !.pc = "returned", !.status = o.status]
    ELSE LET error == IF o.kind = "reject" THEN MsgNetwork ELSE <<"HTTP error: ", StatusString(o.status)>>
         IN  IF LastAttempt(w.retries)
               THEN [w EXCEPT !.pc = "thrown", !.errors = Append(@, error), !.thrown = error]
               ELSE [w EXCEPT !.pc = "sleeping", !.errors = Append(@, error)]

\* the timer of the backoff fires: the recursive call
\* fetchWithRetry(url, options, retries - 1, delay * 2) up to its fetch
fetchWithRetry_Woken(w) ==
  [w EXCEPT !.pc = "fetching", !.waits = Append(@, w.delay), !.retries = @ - 1,
            !.delay = @ * 2, !.requests = @ + 1]

(***************************************************************************)
(* The wrapper on its own, for every retries and delay argument            *)
(***************************************************************************)

RetryInit ==
  /\ RouteIdle
  /\ rw \in {[NoRetry EXCEPT !.retries0 = r, !.delay0 = d] : r \in ((0 - 1)..MaxRetries), d \in {DefaultDelay, 2000}}
  /\ page = NoPage
  /\ stall = "none"
  /\ conc = "none"
  /\ prompt = NoPrompt

Retry_Call ==
  /\ rw.pc = "idle"
  /\ rw' = fetchWithRetry_Call("url", rw.retries0, rw.delay0)
  /\ UNCHANGED <<routeVars, page, stall, conc, prompt>>

Retry_FetchSettles ==
  /\ rw.pc = "fetching"
  /\ \E o \in RetryOutcomes : rw' = fetchWithRetry_Settled(rw, o)
  /\ UNCHANGED <<routeVars, page, stall, conc, prompt>>

Retry_TimerFires ==
  /\ rw.pc = "sleeping"
  /\ rw' = fetchWithRetry_Woken(rw)
  /\ UNCHANGED <<routeVars, page, stall, conc, prompt>>

RetryNext ==
  \/ Retry_Call
  \/ Retry_FetchSettles
  \/ Retry_TimerFires

RetrySpec == RetryInit /\ [][RetryNext]_vars

(***************************************************************************)
(* The page that loads insights from an effect: handleSubmit fetches        *)
(* /api/reviews through fetchWithRetry, and the effect starts loadInsights, *)
(* which fetches /api/insights through fetchWithRetry.  A request of the    *)
(* page is served by the route handler in one step; srcCalls counts the     *)
(* fetches of the review source that the route handlers make.               *)
(***************************************************************************)
PageRetries == 3
PageDelay == 2000

\* the GET insights route as a function of the outcome ro of the fetch its
\* reviews route makes and of the outcome lo of its LLM fetch
InsightsRouteGET(id, key, ro, lo) ==
  IF id = <<>> THEN ErrorResponse(400, MsgAppIdRequired)
  ELSE LET reviewsResponse == ReviewsRouteGET(id, ro) IN
       IF ~Ok(reviewsResponse.status)
         THEN ErrorResponse(500, <<"Reviews API error: ", StatusString(reviewsResponse.status)>>)
       ELSE IF Len(reviewsResponse.reviews) = 0 THEN ErrorResponse(404, MsgNoReviews)
       ELSE IF DeepSeekKeyMissing(key) THEN InsightsGETResponse(Thrown(MsgKeyRequired))
       ELSE InsightsGETResponse(generateInsightsFromReviews(lo))

\* the outcomes of the LLM fetch that the page flow distinguishes
PageLlmOutcomes ==
  { LlmOutcome("reject", 0, "none", <<>>),
    LlmOutcome("http", 401, "text", <<>>),
    LlmOutcome("http", 200, "content", <<"OO", "OC">>),
    LlmOutcome("http", 200, "content", <<"NUL">>),
    LlmOutcome("http", 200, "content", <<"X">>) }

\* the outcomes of the review-source fetch that the page flow distinguishes
PageSourceOutcomes ==
  { SrcOutcome("reject", 0, "none", <<>>),
    SrcOutcome("http", 500, "text", <<>>),
    SrcOutcome("http", 200, "array", <<>>),
    SrcOutcome("http", 200, "array", <<RawFull>>) }

PageInit ==
  /\ flow = "page"
  /\ appId = <<>>
  /\ apiKey \in ApiKeys("insights")
  /\ pc = "idle"
  /\ data = NoData
  /\ resp = NoResponse
  /\ timers = {}
  /\ srcCalls = 0
  /\ llmRequests = <<>>
  /\ stage = "none"
  /\ srcSeen = NoSrcOutcome
  /\ llmSeen = NoLlmSeen
  /\ rw = NoRetry
  /\ page = NoPage
  /\ stall = "none"
  /\ conc = "none"
  /\ prompt = NoPrompt

\* what the wrapper sees of a route's response, or of a request that never
\* reached the route
AsRetryOutcome(response) == RetryOutcome("http", response.status)

\* handleSubmit up to the await of fetchWithRetry.  The form accepts a
\* submit whenever no handleSubmit is running; a run of loadInsights that is
\* in flight goes on (one such run is followed at a time).
Page_handleSubmit ==
  /\ page.pc \in {"idle", "rendered", "loadingInsights"}
  /\ ~page.isLoading
  /\ page.submits < MaxSubmits
  /\ page.pc = "loadingInsights" => page.late.w.pc = "idle"
  /\ \E appIdInput \in {Id_spotify, Id_simple} :
       /\ appId' = appIdInput
       /\ page' = [page EXCEPT !.pc = "fetchingReviews", !.appId = appIdInput,
                               !.error = <<>>, !.isLoading = TRUE, !.insights = FALSE,
                               !.reviewsData = FALSE, !.reviewsOf = <<>>,
                               !.insightsOf = <<>>, !.submits = @ + 1, !.loads = 0,
                               !.late = IF page.pc = "loadingInsights"
                                          THEN [w |-> rw, appId |-> page.appId]
                                          ELSE @]
  /\ rw' = fetchWithRetry_Call("reviews", PageRetries, PageDelay)
  /\ UNCHANGED <<flow, apiKey, pc, data, resp, timers, srcCalls, llmRequests, stage,
                 srcSeen, llmSeen, stall, conc, prompt>>

\* the page after fetchWithRetry settled as w inside handleSubmit: the rest
\* of the try block, or the catch clause, and the finally clause
handleSubmit_Continue(pg, w, fetched) ==
  IF w.pc = "returned"
    THEN [pg EXCEPT !.pc = "rendered", !.reviewsData = TRUE, !.isLoading = FALSE,
                    !.reviewsFetched = fetched, !.reviewsOf = pg.appId]
  ELSE IF w.pc = "thrown"
    THEN [pg EXCEPT !.pc = "rendered", !.reviewsData = FALSE, !.insights = FALSE,
                    !.appId = <<>>, !.isLoading = FALSE, !.insightsOf = <<>>,
                    !.error = <<"Failed to fetch data: ">> \o w.thrown
                                \o <<". Please check the app ID and try again.">>]
  ELSE pg

\* a request for /api/reviews is answered (the reviews route fetched the
\* review source with outcome o), or fails before it reaches the route
Page_ReviewsRequestSettles ==
  /\ page.pc = "fetchingReviews"
  /\ rw.pc = "fetching"
  /\ \/ \E o \in PageSourceOutcomes :
          LET w == fetchWithRetry_Settled(rw, AsRetryOutcome(ReviewsRouteGET(appId, o))) IN
          /\ srcCalls' = srcCalls + 1
          /\ rw' = w
          /\ page' = handleSubmit_Continue(page, w, ~FetchThrows(o) /\ ~NoReviewsFound(o))
     \/ LET w == fetchWithRetry_Settled(rw, RetryOutcome("reject", 0)) IN
          /\ rw' = w
          /\ page' = handleSubmit_Continue(page, w, FALSE)
          /\ UNCHANGED srcCalls
  /\ UNCHANGED <<flow, appId, apiKey, pc, data, resp, timers, llmRequests, stage,
                 srcSeen, llmSeen, stall, conc, prompt>>

\* the timer of the backoff fires and the wrapper issues its next request
Page_RetryTimerFires ==
  /\ page.pc \in {"fetchingReviews", "loadingInsights"}
  /\ rw.pc = "sleeping"
  /\ rw' = fetchWithRetry_Woken(rw)
  /\ UNCHANGED <<routeVars, page, stall, conc, prompt>>

\* if (reviewsData && !insights && !isGeneratingInsights && appId)
EffectCondition(pg) ==
  pg.reviewsData /\ ~pg.insights /\ ~pg.isGeneratingInsights /\ pg.appId # <<>>

\* the effect runs and calls loadInsights, which runs up to the await of
\* fetchWithRetry
Page_EffectLoadsInsights ==
  /\ page.pc = "rendered"
  /\ EffectCondition(page)
  /\ page.loads < MaxLoads
  /\ page' = [page EXCEPT !.pc = "loadingInsights", !.isGeneratingInsights = TRUE,
                          !.error = <<>>, !.loads = @ + 1]
  /\ rw' = fetchWithRetry_Call("insights", PageRetries, PageDelay)
  /\ UNCHANGED <<routeVars, stall, conc, prompt>>

\* the page after fetchWithRetry settled as w inside loadInsights(forApp),
\* the response being response
loadInsights_Continue(pg, w, response, forApp) ==
  IF w.pc = "returned"
    THEN IF response.insights.t = "object"
           THEN [pg EXCEPT !.pc = "rendered", !.insights = TRUE, !.isGeneratingInsights = FALSE,
                           !.insightsOf = forApp]
         ELSE IF "error" \in response.fields
           THEN [pg EXCEPT !.pc = "rendered", !.isGeneratingInsights = FALSE,
                           !.error = <<"Insights generation failed: ">> \o response.error]
         ELSE [pg EXCEPT !.pc = "rendered", !.isGeneratingInsights = FALSE]
  ELSE IF w.pc = "thrown"
    THEN [pg EXCEPT !.pc = "rendered", !.isGeneratingInsights = FALSE,
                    !.error = <<"Failed to generate insights: ">> \o w.thrown]
  ELSE pg

\* a request for /api/insights is answered: the GET insights route fetched
\* its reviews (the review source answering with ro) and, with a key, called
\* the LLM endpoint (which answered with lo); or the request fails before it
\* reaches the route
Page_InsightsRequestSettles ==
  /\ page.pc = "loadingInsights"
  /\ rw.pc = "fetching"
  /\ \/ \E ro \in PageSourceOutcomes, lo \in PageLlmOutcomes :
          LET response == InsightsRouteGET(page.appId, apiKey, ro, lo)
              w == fetchWithRetry_Settled(rw, AsRetryOutcome(response))
          IN  /\ srcCalls' = srcCalls + 1
              /\ rw' = w
              /\ page' = loadInsights_Continue(page, w, response, page.appId)
     \/ LET w == fetchWithRetry_Settled(rw, RetryOutcome("reject", 0)) IN
          /\ rw' = w
          /\ page' = loadInsights_Continue(page, w, NoResponse, page.appId)
          /\ UNCHANGED srcCalls
  /\ UNCHANGED <<flow, appId, apiKey, pc, data, resp, timers, llmRequests, stage,
                 srcSeen, llmSeen, stall, conc, prompt>>

\* a request of the late run of loadInsights is answered, or fails before it
\* reaches the route; when its fetchWithRetry settles, the rest of
\* loadInsights runs, whatever handleSubmit or effect is under way
Page_LateInsightsRequestSettles ==
  /\ page.late.w.pc = "fetching"
  /\ \E response \in {InsightsRouteGET(page.late.appId, apiKey, ro, lo) :
                         ro \in PageSourceOutcomes, lo \in PageLlmOutcomes} \cup {NoResponse} :
       LET o == IF response = NoResponse THEN RetryOutcome("reject", 0)
                ELSE AsRetryOutcome(response)
           w == fetchWithRetry_Settled(page.late.w, o)
       IN  /\ srcCalls' = IF response = NoResponse THEN srcCalls ELSE srcCalls + 1
           /\ page' = IF w.pc = "sleeping" THEN [page EXCEPT !.late.w = w]
                      ELSE [loadInsights_Continue(page, w, response, page.late.appId)
                              EXCEPT !.pc = page.pc, !.late = NoPage.late]
  /\ UNCHANGED <<flow, appId, apiKey, pc, data, resp, timers, llmRequests, stage,
                 srcSeen, llmSeen, rw, stall, conc, prompt>>

\* the timer of the backoff of the late run fires
Page_LateRetryTimerFires ==
  /\ page.late.w.pc = "sleeping"
  /\ page' = [page EXCEPT !.late.w = fetchWithRetry_Woken(@)]
  /\ UNCHANGED <<routeVars, rw, stall, conc, prompt>>

PageNext ==
  \/ Page_handleSubmit
  \/ Page_ReviewsRequestSettles
  \/ Page_RetryTimerFires
  \/ Page_EffectLoadsInsights
  \/ Page_InsightsRequestSettles
  \/ Page_LateInsightsRequestSettles
  \/ Page_LateRetryTimerFires

PageSpec == PageInit /\ [][PageNext]_vars

(***************************************************************************)
(* The combined reviews route when an upstream call stalls.  stall names    *)
(* the call of this request that never settles: the fetch of the review     *)
(* source ("source"), the reading of its body ("sourceBody"), the fetch of  *)
(* the LLM endpoint ("llm") or the reading of its body ("llmBody").  An     *)
(* await on a promise that never settles never resumes; the only thing that *)
(* can end it is an abort timer that is still armed.                        *)
(***************************************************************************)

StallInit ==
  /\ flow \in {"combined", "timed"}
  /\ appId \in AppIds
  /\ apiKey \in ApiKeys(flow)
  /\ pc = "start"
  /\ data = NoData
  /\ resp = NoResponse
  /\ timers = {}
  /\ srcCalls = 0
  /\ llmRequests = <<>>
  /\ stage = "none"
  /\ srcSeen = NoSrcOutcome
  /\ llmSeen = NoLlmSeen
  /\ rw = NoRetry
  /\ page = NoPage
  /\ stall \in {"source", "sourceBody", "llm", "llmBody"}
  /\ conc = "none"
  /\ prompt = NoPrompt

\* The response of a fetch arrived and the handler awaits response.json()
\* or response.text(), which never settles.  The timed variant has called
\* clearTimeout by then.
Stall_BodyNeverArrives(p, timer) ==
  /\ pc = p
  /\ pc' = "readingBody"
  /\ timers' = timers \ {timer}
  /\ UNCHANGED <<flow, appId, apiKey, data, resp, srcCalls, llmRequests, stage, srcSeen, llmSeen>>
  /\ UNCHANGED otherVars

\* the review source answers as usual (the call that stalls is a later one)
Stall_GET_SourceResponds == stall \in {"llm", "llmBody"} /\ GET_SourceResponds

Stall_TimedGET_SourceResponds == stall \in {"llm", "llmBody"} /\ TimedGET_SourceResponds

\* the fetch of the review source never settles: the timer of the timed
\* variant fires and aborts it; the plain variant has no timer
Stall_TimedGET_SourceAborted == stall = "source" /\ TimedGET_SourceSettles(SrcAbort)

Stall_SourceBodyNeverArrives ==
  /\ stall = "sourceBody"
  /\ flow \in {"combined", "timed"}
  /\ Stall_BodyNeverArrives("awaitSource", "src")

\* the fetch of the LLM endpoint never settles
Stall_TimedGET_LlmAborted == stall = "llm" /\ TimedGET_LlmSettles(LlmAbort)

Stall_LlmBodyNeverArrives ==
  /\ stall = "llmBody"
  /\ flow \in {"combined", "timed"}
  /\ Stall_BodyNeverArrives("awaitLLM", "llm")

StallNext ==
  \/ GET_Start
  \/ TimedGET_Start
  \/ Stall_GET_SourceResponds
  \/ Stall_TimedGET_SourceResponds
  \/ Stall_TimedGET_SourceAborted
  \/ Stall_SourceBodyNeverArrives
  \/ Stall_TimedGET_LlmAborted
  \/ Stall_LlmBodyNeverArrives

StallSpec == StallInit /\ [][StallNext]_vars

(***************************************************************************)
(* Two concurrent requests to the combined reviews route.  Each invocation  *)
(* of GET has its own locals (appId, data, the response it builds); the     *)
(* module-level constants (the API key, the URLs) are only read.  The       *)
(* requests interleave at their awaits.                                     *)
(***************************************************************************)
Requests == {1, 2}

\* the locals of an invocation that has not started
NoLocals(id) ==
  [pc |-> "start", appId |-> id, data |-> NoData, resp |-> NoResponse,
   src |-> NoSrcOutcome, llm |-> (LlmOutcome("none", 0, "none", <<>>))]

ConcAppIds == {<<>>, Id_spotify, Id_simple}

ConcSourceOutcomes ==
  { SrcOutcome("reject", 0, "none", <<>>),
    SrcOutcome("http", 200, "array", <<>>),
    SrcOutcome("http", 200, "array", <<RawFull>>),
    SrcOutcome("http", 200, "array", <<RawBare, RawOdd>>) }

ConcInit ==
  /\ flow = "concurrent"
  /\ appId = <<>>
  /\ apiKey \in ApiKeys("combined")
  /\ pc = "idle"
  /\ data = NoData
  /\ resp = NoResponse
  /\ timers = {}
  /\ srcCalls = 0
  /\ llmRequests = <<>>
  /\ stage = "none"
  /\ srcSeen = NoSrcOutcome
  /\ llmSeen = NoLlmSeen
  /\ rw = NoRetry
  /\ page = NoPage
  /\ stall = "none"
  /\ conc \in {[r \in Requests |-> NoLocals(IF r = 1 THEN id1 ELSE id2)] :
                 id1 \in ConcAppIds, id2 \in ConcAppIds}
  /\ prompt = NoPrompt

\* the const data that invocation r reads after its LLM call
DataOf_shared(c, r) == IF c[3 - r].data # NoData THEN c[3 - r].data ELSE c[r].data

DataOf(c, r) == c[r].data

\* invocation r from its entry to the await of the review-source fetch
Conc_Start(r) ==
  /\ conc[r].pc = "start"
  /\ conc' = [conc EXCEPT ![r] =
       IF conc[r].appId = <<>>
         THEN [@ EXCEPT !.pc = "done", !.resp = ErrorResponse(400, MsgAppIdRequired)]
         ELSE [@ EXCEPT !.pc = "awaitSource"]]
  /\ UNCHANGED <<routeVars, rw, page, stall, prompt>>

\* invocation r from the settling of its review-source fetch to its next
\* await or return
Conc_SourceResponds(r) ==
  /\ conc[r].pc = "awaitSource"
  /\ \E o \in ConcSourceOutcomes :
       conc' = [conc EXCEPT ![r] =
         IF FetchThrows(o) \/ NoReviewsFound(o)
           THEN [@ EXCEPT !.pc = "done", !.src = o, !.resp = generateSampleResponse(conc[r].appId)]
           ELSE LET d == TransformData(conc[r].appId, o) IN
                IF DeepSeekKeyMissing(apiKey)
                  THEN [@ EXCEPT !.pc = "done", !.src = o, !.data = d,
                                 !.resp = CombinedResponse(conc[r].appId, d, Thrown(MsgKeyRequired), {})]
                  ELSE [@ EXCEPT !.pc = "awaitLLM", !.src = o, !.data = d]]
  /\ UNCHANGED <<routeVars, rw, page, stall, prompt>>

\* invocation r from the settling of its LLM fetch to its return
Conc_LlmResponds(r) ==
  /\ conc[r].pc = "awaitLLM"
  /\ \E o \in PageLlmOutcomes :
       conc' = [conc EXCEPT ![r] =
         [@ EXCEPT !.pc = "done", !.llm = o,
                   !.resp = CombinedResponse(conc[r].appId, DataOf(conc, r),
                                             generateInsightsFromReviews(o), {})]]
  /\ UNCHANGED <<routeVars, rw, page, stall, prompt>>

ConcNext ==
  \/ \E r \in Requests : Conc_Start(r)
  \/ \E r \in Requests : Conc_SourceResponds(r)
  \/ \E r \in Requests : Conc_LlmResponds(r)

ConcSpec == ConcInit /\ [][ConcNext]_vars

(***************************************************************************)
(* The transform step on its own: formatAppName on identifiers of every    *)
(* shape, and the map over apiData.reviews for batches of raw records in   *)
(* which any subset of the fields is missing, or present with an empty or  *)
(* unusual value                                                           *)
(***************************************************************************)

\* the raw record that has exactly the fields of present
RawWith(present) ==
  [ id       |-> IF "id" \in present THEN <<"a">> ELSE <<>>,
    score    |-> IF "score" \in present THEN <<5>> ELSE <<>>,
    text     |-> IF "text" \in present THEN <<"great">> ELSE <<>>,
    userName |-> IF "userName" \in present THEN <<"ann">> ELSE <<>>,
    date     |-> IF "date" \in present THEN <<"2024-01-01">> ELSE <<>> ]

\* records with an empty string, a zero, a score outside 1..5, or an id
\* that is the text of a position
RawUnusual ==
  { [RawFull EXCEPT !.id = <<"">>], [RawFull EXCEPT !.userName = <<"">>],
    [RawFull EXCEPT !.date = <<"">>], [RawFull EXCEPT !.text = <<"">>],
    [RawFull EXCEPT !.score = <<0>>], [RawFull EXCEPT !.score = <<7>>],
    [RawFull EXCEPT !.score = <<0 - 1>>], [RawFull EXCEPT !.id = <<"b">>],
    [RawFull EXCEPT !.id = <<"1">>], [RawFull EXCEPT !.id = <<"2">>] }

\* Identifiers the resolver is applied to: publisher segments, each followed
\* by a dot and a trailing segment (which may be empty), and identifiers
\* without a dot
NameIds ==
  {d \o <<".">> \o t :
     d \in {
       <<"c","o","m">>, <<"c","o","m",".","g","o","o","g","l","e">>,
       <<"c","o","m",".","f","a","c","e","b","o","o","k">>,
       <<"c","o","m",".","a","m","a","z","o","n">>,
       <<"c","o","m",".","s","p","o","t","i","f","y">>,
       <<"c","o","m",".","n","e","t","f","l","i","x">>,
       <<"c","o","m",".","d","u","o","l","i","n","g","o">>,
       <<"c","o","m",".","g","o","o","g","l","e",".","a","n","d","r","o","i","d">>,
       <<"c","o","m",".","i","n","s","t","a","g","r","a","m">>,
       <<"o","r","g",".","w","h","a","t","s","a","p","p",".","w","4","b">>,
       <<"c","o","m",".","t","w","i","t","t","e","r">>, <<"x",".","c","o","m">>,
       <<"c","o","m",".","n","e","t","f","l","i","x",".","c","o","m">>,
       <<"c","o","m",".","t","i","k","t","o","k">>,
       <<"c","o","m",".","s","n","a","p","c","h","a","t">>, <<"i","o">> },
     t \in {
       <<"d","u","o","l","i","n","g","o">>, <<"m","a","p","s">>, <<"m","u","s","i","c">>, <<>>, <<"M","y","_","a","p","p">>,
       <<"T","V","2">> }}
    \cup {
       <<"s","i","m","p","l","e","a","p","p">>, <<"m","y","-","a","p","p">>,
       <<"M","y","_","a","p","p","2">>, <<"-","x">> }

NormInit ==
  /\ flow = "normalizer"
  /\ appId \in NameIds \cup {Id_simple}
  /\ apiKey = ""
  /\ pc = "start"
  /\ data = NoData
  /\ resp = NoResponse
  /\ timers = {}
  /\ srcCalls = 0
  /\ llmRequests = <<>>
  /\ stage = "none"
  /\ srcSeen \in {SrcOutcome("http", 200, "array", raws) :
                    raws \in IF appId = Id_simple
                               THEN SeqsUpTo({RawWith(present) : present \in SUBSET {"id", "score", "text", "userName", "date"}}
                                               \cup RawUnusual, MaxBatch)
                               ELSE {<<RawFull>>}}
  /\ llmSeen = NoLlmSeen
  /\ OthersIdle

\* const data = { appName, reviews: apiData.reviews.map(...) }
Normalizer_Apply ==
  /\ flow = "normalizer"
  /\ pc = "start"
  /\ data' = TransformData(appId, srcSeen)
  /\ pc' = "done"
  /\ UNCHANGED <<flow, appId, apiKey, resp, timers, srcCalls, llmRequests, stage, srcSeen, llmSeen>>
  /\ UNCHANGED otherVars

NormNext == Normalizer_Apply

NormSpec == NormInit /\ [][NormNext]_vars

(***************************************************************************)
(* The prompt builder on its own: the head of generateInsightsFromReviews   *)
(* (and of the POST insights route) up to the rendering of the prompt, for  *)
(* review sequences shorter and longer than the cap of the route            *)
(***************************************************************************)
\* the cap of reviews.slice(0, cap) in the route of flow f
CapOf(f) == IF f = "insights" THEN InsightsCap ELSE SampleCap

\* if (review.rating >= 1 && review.rating <= 5)
InBucketRange_exclusive(rating) == rating >= 1 /\ rating < 5

InBucketRange(rating) == rating >= 1 /\ rating <= 5

\* ratingCounts[review.rating - 1]++ for one review; counts[r] is the bucket
\* of rating r
CountOne(review) ==
  [r \in 1..5 |-> IF InBucketRange(review.rating) /\ review.rating = r THEN 1 ELSE 0]

AddCounts(a, b) == [r \in 1..5 |-> a[r] + b[r]]

\* reviewsForAnalysis.forEach(review => { if (...) ratingCounts[...]++ }) over
\* the reviews lo..hi, the counts of the two halves being added
RECURSIVE CountRatings(_, _, _)
CountRatings(reviews, lo, hi) ==
  IF lo > hi THEN <<0, 0, 0, 0, 0>>
  ELSE IF lo = hi THEN CountOne(reviews[lo])
  ELSE AddCounts(CountRatings(reviews, lo, (lo + hi) \div 2),
                 CountRatings(reviews, ((lo + hi) \div 2) + 1, hi))

\* reviewsForAnalysis.reduce((sum, review) => sum + review.rating, 0) over
\* the reviews lo..hi
RECURSIVE SumRatings(_, _, _)
SumRatings(reviews, lo, hi) ==
  IF lo > hi THEN 0
  ELSE IF lo = hi THEN reviews[lo].rating
  ELSE SumRatings(reviews, lo, (lo + hi) \div 2)
         + SumRatings(reviews, ((lo + hi) \div 2) + 1, hi)

\* avgRating as the fraction num / den; the POST insights route divides
\* without the length check (den = 0 stands for the NaN of 0 / 0)
AvgRating(f, reviews) ==
  IF f = "post" \/ Len(reviews) > 0
    THEN [num |-> SumRatings(reviews, 1, Len(reviews)), den |-> Len(reviews)]
    ELSE [num |-> 0, den |-> 1]

\* The quotient of two integers is the double nearest to it (53 significant
\* bits, ties to even).  With the leading bit of the quotient taken and r the
\* remainder, k further bits are produced by long division; the result is
\* the sign of (double - exact quotient).
RECURSIVE DivisionError(_, _, _, _)
DivisionError(r, d, k, odd) ==
  IF k = 0
    THEN IF r = 0 THEN 0
         ELSE IF 2 * r > d \/ (2 * r = d /\ odd) THEN 1
         ELSE 0 - 1
    ELSE IF 2 * r >= d THEN DivisionError(2 * r - d, d, k - 1, TRUE)
         ELSE DivisionError(2 * r, d, k - 1, FALSE)

\* n / d for n >= 0 and d > 0: the quotient is scaled into [1, 2) first
RECURSIVE DoubleError(_, _)
DoubleError(n, d) ==
  IF n = 0 THEN 0
  ELSE IF n < d THEN DoubleError(2 * n, d)
  ELSE IF n >= 2 * d THEN DoubleError(n, 2 * d)
  ELSE DivisionError(n - d, d, 52, TRUE)

\* avgRating.toFixed(1): the decimal with one fraction digit nearest to the
\* double, the larger one when the double lies exactly between two; the
\* sign is written first.  NaN renders as "NaN".
toFixed1_truncating(avg) ==
  IF avg.den = 0 THEN "NaN"
  ELSE LET a == IF avg.num < 0 THEN 0 - avg.num ELSE avg.num
           tenths == (10 * a) \div avg.den
       IN  (IF avg.num < 0 THEN "-" ELSE "")
             \o ToString(tenths \div 10) \o "." \o ToString(tenths % 10)

toFixed1(avg) ==
  IF avg.den = 0 THEN "NaN"
  ELSE LET a == IF avg.num < 0 THEN 0 - avg.num ELSE avg.num
           t == 20 * a
           between == t % avg.den = 0 /\ (t \div avg.den) % 2 = 1
           tenths == IF between
                       THEN IF DoubleError(a, avg.den) >= 0
                              THEN ((t \div avg.den) + 1) \div 2
                              ELSE ((t \div avg.den) - 1) \div 2
                       ELSE (t + avg.den) \div (2 * avg.den)
       IN  (IF avg.num < 0 THEN "-" ELSE "")
             \o ToString(tenths \div 10) \o "." \o ToString(tenths % 10)

\* what the prompt is rendered from
BuildPrompt(f, appName, reviews) ==
  LET reviewsForAnalysis == Slice(reviews, CapOf(f))
      avgRating == AvgRating(f, reviewsForAnalysis)
  IN  [appName |-> appName,
       reviewsForAnalysis |-> reviewsForAnalysis,
       ratingCounts |-> CountRatings(reviewsForAnalysis, 1, Len(reviewsForAnalysis)),
       avgRating |-> avgRating,
       avgText |-> toFixed1(avgRating)]

\* ratings that reviews carry: 0 (unknown), 1..5, and values out of range
RatingCycle == <<0, 1, 2, 3, 4, 5, 7, 0 - 1>>

\* review number i of a generated sequence
GeneratedReview(i, shift) ==
  [id |-> ToString(i), rating |-> RatingCycle[((i + shift) % 8) + 1],
   text |-> "text", author |-> "Anonymous", date |-> "NOW"]


\* the lengths around 0 and around the two caps
InputLengths ==
  {n \in 0..MaxInput : \/ n <= 3
                       \/ (n >= InsightsCap - 1 /\ n <= InsightsCap + 2)
                       \/ n >= SampleCap - 1}

\* every short sequence of ratings, three reviews rated 5, 5 and 1, and
\* long generated sequences
PromptInputs ==
  {[i \in DOMAIN q |-> [GeneratedReview(i, 0) EXCEPT !.rating = q[i]]] :
     q \in SeqsUpTo(Range(RatingCycle), MaxBatch) \cup {<<5, 5, 1>>}}
    \cup {[i \in 1..n |-> GeneratedReview(i, shift)] : n \in InputLengths, shift \in 0..7}

PromptInit ==
  /\ flow \in Flows
  /\ appId = Id_spotify
  /\ apiKey = "sk-valid"
  /\ pc = "build"
  /\ data \in {Data(formatAppName(Id_spotify), reviews) : reviews \in PromptInputs}
  /\ resp = NoResponse
  /\ timers = {}
  /\ srcCalls = 0
  /\ llmRequests = <<>>
  /\ stage = "keyOk"
  /\ srcSeen = NoSrcOutcome
  /\ llmSeen = NoLlmSeen
  /\ OthersIdle

\* if (!body.appName || !body.reviews || !Array.isArray(body.reviews)
\*     || body.reviews.length === 0)
PostBodyInvalid_noLengthCheck(appName, reviews) == appName = <<>>

PostBodyInvalid(appName, reviews) == appName = <<>> \/ Len(reviews) = 0

\* The POST insights route validates its body before it builds the prompt;
\* the other routes call generateInsightsFromReviews.
Prompt_Build ==
  /\ pc = "build"
  /\ IF flow = "post" /\ PostBodyInvalid(data.appName, data.reviews)
       THEN /\ resp' = ErrorResponse(400, <<"Valid app name and reviews array are required">>)
            /\ pc' = "done"
            /\ UNCHANGED prompt
       ELSE /\ prompt' = BuildPrompt(flow, data.appName, data.reviews)
            /\ pc' = "built"
            /\ UNCHANGED resp
  /\ UNCHANGED <<flow, appId, apiKey, data, timers, srcCalls, llmRequests, stage,
                 srcSeen, llmSeen, rw, page, stall, conc>>

PromptNext == Prompt_Build

PromptSpec == PromptInit /\ [][PromptNext]_vars

(***************************************************************************)
(* The page of page.tsx: handleSubmit fetches /api/reviews once and stores *)
(* what the response carries.  page holds the state of the component:      *)
(* appName (<<>> for undefined), reviewsData (present is FALSE for null),  *)
(* insights (JsonNull for null), error (<<>> for null), and, as history,   *)
(* seen: how the fetch settled (kind "reject", or "http" with the response *)
(* and whether its body reads as JSON).                                    *)
(***************************************************************************)
SubmitInit ==
  /\ RouteIdle
  /\ rw = NoRetry
  /\ stall = "none"
  /\ conc = "none"
  /\ prompt = NoPrompt
  /\ page = [pc |-> "idle", isLoading |-> FALSE, appName |-> <<>>,
             reviewsData |-> [present |-> FALSE, appName |-> <<>>, reviews |-> <<>>],
             insights |-> JsonNull, error |-> <<>>, submits |-> 0,
             seen |-> [kind |-> "none", readable |-> FALSE, response |-> NoResponse]]

\* handleSubmit up to the await of fetch
Submit_handleSubmit ==
  /\ page.pc \in {"idle", "rendered"}
  /\ page.submits < MaxSubmits
  /\ \E appIdInput \in {Id_spotify, Id_simple} :
       /\ appId' = appIdInput
       /\ page' = [page EXCEPT !.pc = "fetching", !.error = <<>>, !.isLoading = TRUE,
                               !.insights = JsonNull, !.reviewsData.present = FALSE,
                               !.reviewsData.appName = <<>>, !.reviewsData.reviews = <<>>,
                               !.appName = <<>>, !.submits = @ + 1]
  /\ UNCHANGED <<flow, apiKey, pc, data, resp, timers, srcCalls, llmRequests, stage,
                 srcSeen, llmSeen, rw, stall, conc, prompt>>

\* handleSubmit(id) from the settling of its fetch as o on: the rest of the
\* try block or the catch clause, and the finally clause
Home_handleSubmit_noStateUpdate(pg, id, o) == [pg EXCEPT !.pc = "rendered", !.seen = o]

Home_handleSubmit_Settled(pg, id, o) ==
  LET failed(m) ==
        [pg EXCEPT !.pc = "rendered", !.isLoading = FALSE, !.appName = <<>>,
                   !.reviewsData = [present |-> FALSE, appName |-> <<>>, reviews |-> <<>>],
                   !.insights = JsonNull, !.seen = o,
                   !.error = <<"Failed to fetch data: ">> \o m
                               \o <<". Please check the app ID and try again.">>]
      d == o.response
  IN  IF o.kind = "reject" THEN failed(MsgNetwork)
      ELSE IF ~Ok(d.status)
        THEN IF o.readable /\ d.error # <<>> THEN failed(d.error)
             ELSE failed(<<"API error: ", StatusString(d.status)>>)
      ELSE IF ~o.readable THEN failed(<<"Unexpected token">>)
      ELSE LET lastPart == SubSeq(id, LastDot(id) + 1, Len(id))
               simplifiedAppName == IF d.appName # <<>> THEN d.appName
                                    ELSE IF lastPart # <<>> THEN lastPart
                                    ELSE id
           IN  [pg EXCEPT !.pc = "rendered", !.isLoading = FALSE, !.seen = o,
                          !.appName = IF simplifiedAppName = <<>> THEN <<>>
                                      ELSE <<toUpperCase(Head(simplifiedAppName))>>
                                             \o Tail(simplifiedAppName),
                          !.reviewsData = [present |-> TRUE, appName |-> d.appName,
                                           reviews |-> d.reviews],
                          !.insights = IF d.insights.t = "object" THEN d.insights ELSE JsonNull,
                          !.error = IF d.insightError # <<>> THEN d.insightError
                                    ELSE IF d.insights.t # "object" /\ Len(d.reviews) > 0
                                      THEN <<"AI insights could not be generated for these reviews. You can still view the reviews.">>
                                    ELSE <<>>]

\* The fetch settles: it rejects, or /api/reviews answers.  The answers are
\* those of the combined reviews route and of the reviews-only route, for
\* the outcomes of their own network calls that the page flow distinguishes,
\* and a 500 whose body is not JSON.
Submit_FetchSettles ==
  /\ page.pc = "fetching"
  /\ \E key \in ApiKeys("combined"), so \in PageSourceOutcomes \cup ConcSourceOutcomes, lo \in PageLlmOutcomes :
       LET good == ~FetchThrows(so) /\ ~NoReviewsFound(so)
           combined == IF ~good THEN generateSampleResponse(appId)
                       ELSE IF DeepSeekKeyMissing(key)
                         THEN CombinedResponse(appId, TransformData(appId, so), Thrown(MsgKeyRequired), {})
                       ELSE CombinedResponse(appId, TransformData(appId, so),
                                             generateInsightsFromReviews(lo), {})
       IN  \E o \in {[kind |-> "reject", readable |-> FALSE, response |-> NoResponse],
                      [kind |-> "http", readable |-> FALSE, response |-> ErrorResponse(500, <<>>)],
                      [kind |-> "http", readable |-> TRUE, response |-> ErrorResponse(500, MsgNetwork)],
                      [kind |-> "http", readable |-> TRUE, response |-> combined],
                      [kind |-> "http", readable |-> TRUE, response |-> ReviewsRouteGET(appId, so)]} :
             page' = Home_handleSubmit_Settled(page, appId, o)
  /\ UNCHANGED <<routeVars, rw, stall, conc, prompt>>

SubmitSpec == SubmitInit /\ [][Submit_handleSubmit \/ Submit_FetchSettles]_vars

(***************************************************************************)
(* The parser on its own: the tail of generateInsightsFromReviews (in the  *)
(* combined route) and of the POST insights route from a 2xx response with *)
(* a content string on.  llmSeen holds that response until it is parsed.   *)
(* The contents are the JSON.stringify text of an object and that text     *)
(* wrapped in fences and white space.                                      *)
(***************************************************************************)
ParserContents ==
  LET texts == {<<"OO">> \o str \o <<"OC">> : str \in SeqsUpTo({"X", "SP", "BB"}, MaxText)}
      opening == {<<>>, <<"FO">>, <<"FB">>, <<"SP", "FO">>, <<"FO", "NL">>}
      closing == {<<>>, <<"FC">>, <<"FC", "NL">>, <<"FC", "SP">>, <<"NL", "FC">>}
  IN  {a \o j \o b : a \in opening, j \in texts, b \in closing}

ParserInit ==
  /\ flow \in {"combined", "post"}
  /\ appId = Id_simple
  /\ apiKey = "sk-valid"
  /\ pc = "parse"
  /\ data = Data(formatAppName(Id_simple), Normalize(<<RawFull>>))
  /\ resp = NoResponse
  /\ timers = {}
  /\ srcCalls = 1
  /\ llmRequests = <<LlmRequest(formatAppName(Id_simple), Normalize(<<RawFull>>), SampleCap)>>
  /\ stage = "keyOk"
  /\ srcSeen = SrcOutcome("http", 200, "array", <<RawFull>>)
  /\ llmSeen \in {LlmOutcome("http", 200, "content", c) : c \in ParserContents}
  /\ OthersIdle

Parser_Apply ==
  /\ pc = "parse"
  /\ resp' = IF flow = "post" THEN InsightsPOSTResponse(llmSeen)
             ELSE CombinedResponse(appId, data, generateInsightsFromReviews(llmSeen), {})
  /\ pc' = "done"
  /\ UNCHANGED <<flow, appId, apiKey, data, timers, srcCalls, llmRequests, stage, srcSeen, llmSeen>>
  /\ UNCHANGED otherVars

ParserSpec == ParserInit /\ [][Parser_Apply]_vars

(***************************************************************************)
(* Properties                                                              *)
(***************************************************************************)
CombinedRoute == flow \in {"combined", "timed"}

Finished == pc = "done"

\* the review fetch succeeded with at least one review
FetchedReviews ==
  /\ srcSeen.kind = "http"
  /\ srcSeen.status = 200
  /\ srcSeen.body = "array"
  /\ Len(srcSeen.reviews) >= 1

\* the review fetch failed: it threw, timed out, returned a non-2xx status
\* or a body that is not JSON
FetchFailed ==
  \/ srcSeen.kind \in {"reject", "abort"}
  \/ srcSeen.kind = "http" /\ srcSeen.status \in {404, 500}
  \/ srcSeen.kind = "http" /\ srcSeen.status = 200 /\ srcSeen.body \in {"bodyfail", "malformed"}

\* the review fetch succeeded and yielded zero reviews
FetchedNothing ==
  /\ srcSeen.kind = "http"
  /\ srcSeen.status = 200
  /\ \/ srcSeen.body \in {"noReviews", "notArray"}
     \/ srcSeen.body = "array" /\ srcSeen.reviews = <<>>

\* the DeepSeek key is absent or the placeholder
KeyAbsent == apiKey = "" \/ apiKey = "YOUR_DEEPSEEK_API_KEY_HERE"

\* the LLM content was a string that is not valid JSON after cleanup
ContentUnparsable ==
  /\ llmSeen.kind = "http"
  /\ llmSeen.status = 200
  /\ llmSeen.env = "content"
  /\ ~llmSeen.empty
  /\ llmSeen.parsed.t = "SyntaxError"

\* the insight stage was entered and failed in one of the listed ways
InsightStageFailed ==
  \/ stage = "entered" /\ KeyAbsent
  \/ /\ stage = "keyOk"
     /\ \/ llmSeen.kind \in {"reject", "abort"}
        \/ llmSeen.kind = "http" /\ llmSeen.status \in {401, 500}
        \/ llmSeen.kind = "http" /\ llmSeen.status = 200
             /\ llmSeen.env \in {"bodyfail", "unparsable", "jsonNull", "errorMsg",
                                 "errorNoMsg", "noContent", "nonString"}
        \/ llmSeen.kind = "http" /\ llmSeen.status = 200 /\ llmSeen.env = "content" /\ llmSeen.empty
        \/ ContentUnparsable

\* the result carries exactly the normalized reviews of the fetch stage
CarriesFetchedReviews ==
  /\ resp.status = 200
  /\ {"appName", "reviews", "insights"} \subseteq resp.fields
  /\ resp.appName = formatAppName(appId)
  /\ resp.reviews = Normalize(srcSeen.reviews)

InsightsNull == "insights" \in resp.fields /\ resp.insights.t = "null"

InsightNotAttempted == stage = "none" /\ llmRequests = <<>> /\ llmSeen.kind = "none"

IsSampleBatch(reviews) ==
  /\ Len(reviews) = 5
  /\ [i \in 1..5 |-> reviews[i].id] = <<"1", "2", "3", "4", "5">>
  /\ [i \in 1..5 |-> reviews[i].rating] = <<5, 4, 3, 5, 2>>

\* C1: in the combined reviews route, when the review fetch succeeded with
\* at least one review and the insight stage then failed, the response
\* carries the resolved app name and exactly the normalized reviews of the
\* fetch stage, in order, with insights null.
C1_ReviewsSurviveInsightFailure ==
  (CombinedRoute /\ Finished /\ FetchedReviews /\ InsightStageFailed)
    => (CarriesFetchedReviews /\ InsightsNull)

C1_Witness ==
  /\ CombinedRoute /\ Finished /\ FetchedReviews
  /\ stage = "keyOk" /\ llmSeen.kind = "reject"
  /\ Len(resp.reviews) = 2 /\ resp.reviews = Normalize(srcSeen.reviews)

\* C2: no result has both insights and insightError populated: an
\* insightError is present only when insights is null.
C2_InsightsXorError ==
  ("insightError" \in resp.fields) => (resp.insights.t = "null" /\ resp.insightError # <<>>)

C2_Witness ==
  /\ Finished /\ CombinedRoute
  /\ "insightError" \in resp.fields
  /\ resp.insights.t = "null"
  /\ llmSeen.kind = "http" /\ llmSeen.env = "noContent"

\* C3: when the review-source fetch fails, the combined route ends with the
\* fixed five-review sample batch (ids 1..5, ratings 5,4,3,5,2), insights
\* null, no insightError, and the insight stage is never entered.
C3_FetchFailureGivesSample ==
  (CombinedRoute /\ Finished /\ FetchFailed)
    => /\ resp.status = 200
       /\ "reviews" \in resp.fields
       /\ IsSampleBatch(resp.reviews)
       /\ InsightsNull
       /\ "insightError" \notin resp.fields
       /\ InsightNotAttempted
       /\ srcCalls = 1

C3_Witness ==
  /\ CombinedRoute /\ Finished
  /\ srcSeen.kind = "http" /\ srcSeen.status = 500
  /\ IsSampleBatch(resp.reviews)

C5_SampleNeverSentToLlm ==
  \A i \in DOMAIN llmRequests : ~IsSampleBatch(llmRequests[i].reviews)

\* C6: in the combined route, a result with a non-empty reviews list,
\* insights null and no insightError means the insight stage was not
\* attempted, whatever the LLM content string.
C6_NullWithoutErrorMeansNotAttempted ==
  (/\ CombinedRoute /\ Finished
   /\ resp.status = 200
   /\ Len(resp.reviews) > 0
   /\ InsightsNull
   /\ "insightError" \notin resp.fields)
    => (stage = "none" /\ llmRequests = <<>>)

ParseFailureError ==
  <<"Failed to generate AI insights: ",
    "Failed to parse the generated insights JSON from API response",
    ". Reviews are still available.">>

\* C9: content that is not valid JSON after cleanup never escapes the
\* handler: the combined route answers 200 with the reviews and the
\* parse-failure insightError, and that insightError is produced for no
\* other LLM outcome (not for a non-2xx status, not for absent or empty
\* content); the POST insights route likewise answers with its own
\* parse-failure error for such content and for it only.
C9_ParseFailureIsolated ==
  /\ (CombinedRoute /\ Finished /\ stage = "keyOk")
       => /\ resp.status = 200
          /\ CarriesFetchedReviews \/ ~FetchedReviews
          /\ ContentUnparsable => (InsightsNull /\ resp.insightError = ParseFailureError)
          /\ (resp.insightError = ParseFailureError)
               => (ContentUnparsable \/ llmSeen.env = "nonString")
  /\ (flow = "post" /\ Finished /\ llmSeen.kind # "none")
       => /\ resp.status \in {200, 500}
          /\ ContentUnparsable => resp.error = <<"Failed to parse API response as JSON">>
          /\ (resp.error = <<"Failed to parse API response as JSON">>)
               => (ContentUnparsable \/ llmSeen.env = "nonString")

C9_Witness ==
  /\ CombinedRoute /\ Finished /\ FetchedReviews
  /\ ContentUnparsable
  /\ resp.insightError = ParseFailureError
  /\ resp.reviews = Normalize(srcSeen.reviews)

\* how far a request has come
PcRank(p) ==
  CASE p = "start" -> 0
    [] p \in {"awaitSource", "awaitReviews"} -> 1
    [] p = "awaitLLM" -> 2
    [] p = "done" -> 3
    [] OTHER -> 4

\* C10: every request to a route handler terminates with a structured JSON
\* response and no exception leaves the handler: a handler that has not
\* returned can always take its next step, every step moves it strictly
\* forward through its finitely many stages, and a handler that has
\* returned has produced a JSON body with an HTTP status.
C10_HandlerTerminates ==
  /\ [](pc # "done" => ENABLED Next)
  /\ [][PcRank(pc') > PcRank(pc)]_vars
  /\ []((pc = "done" /\ flow # "post")
          => (resp.status \in {200, 400, 404, 500} /\ resp.fields # {}))

C10_Witness ==
  /\ flow = "combined" /\ Finished
  /\ llmSeen.kind = "reject"
  /\ resp.status = 200 /\ resp.fields # {}

\* C11: for a request that names an application and runs the insight stage
\* (combined reviews route, GET insights route, POST insights route), every
\* insight-stage error is downgraded to a string field of a 2xx result: a
\* handler that entered the insight stage never answers with a non-2xx
\* status, and a non-2xx status is never the answer to a fetch that worked.
C11_InsightErrorsAreDowngraded ==
  (Finished /\ appId # <<>> /\ stage # "none" /\ resp.status # 0)
    => (Ok(resp.status) /\ "error" \notin resp.fields)

RECURSIVE Pow2(_)
Pow2(k) == IF k <= 0 THEN 1 ELSE 2 * Pow2(k - 1)

AtLeastOne(n) == IF n > 1 THEN n ELSE 1

\* the steps a call of the wrapper has made
RetryRank(w) == w.requests + Len(w.waits) + Len(w.errors) + (IF w.pc = "returned" THEN 1 ELSE 0)

\* C12: fetchWithRetry(url, options, retries, delay) issues at most
\* max(1, retries) requests; it returns the first ok response and issues no
\* request after it; the wait before attempt k+1 is delay * 2^(k-1); every
\* failed attempt but the last, whether a rejected fetch or a non-ok status,
\* is followed by a retry; after the last failed attempt the error of that
\* attempt is thrown; the call always terminates: until it has returned or
\* thrown it can take a step, and every step moves it forward.
C12_BoundedRetry ==
  /\ [](/\ rw.requests <= AtLeastOne(rw.retries0)
        /\ rw.pc # "idle" => Len(rw.waits) = rw.requests - 1
        /\ \A k \in DOMAIN rw.waits : rw.waits[k] = rw.delay0 * Pow2(k - 1)
        /\ rw.pc = "returned"
             => (Ok(rw.status) /\ Len(rw.errors) = rw.requests - 1 /\ rw.thrown = <<>>)
        /\ rw.pc = "thrown"
             => /\ rw.requests = AtLeastOne(rw.retries0)
                /\ Len(rw.errors) = rw.requests
                /\ rw.thrown = rw.errors[Len(rw.errors)]
        /\ rw.pc = "sleeping" => Len(rw.errors) = rw.requests
        /\ rw.pc \notin {"returned", "thrown"} => ENABLED RetryNext
        /\ rw.pc \in {"returned", "thrown"} => ~ENABLED RetryNext)
  /\ [][RetryRank(rw') > RetryRank(rw)]_vars

C12_Witness ==
  /\ rw.pc = "thrown"
  /\ rw.retries0 = 3 /\ rw.delay0 = 1000
  /\ rw.requests = 3
  /\ rw.waits = <<1000, 2000>>
  /\ rw.errors = <<<<"fetch failed">>, <<"HTTP error: ", "404">>, <<"HTTP error: ", "500">>>>
  /\ rw.thrown = <<"HTTP error: ", "500">>

\* C13: a retry by the retry wrapper re-runs only the failed call: once the
\* review fetch of a submitted app has succeeded, a retry of the insight
\* request does not fetch the review source again.
C13_RetryDoesNotRefetchReviews ==
  [][(/\ page.reviewsFetched
      /\ page.pc = "loadingInsights"
      /\ rw.pc = "fetching"
      /\ rw.requests >= 2) => srcCalls' = srcCalls]_vars

\* C14: a stalled upstream call cannot block a request forever.  A handler
\* that has not returned can always take a step, also while the call it
\* awaits never settles; when the review source never responds the request
\* ends with the fallback sample batch, and when the LLM provider never
\* responds, or never finishes its body, it ends with the fetched reviews
\* and an insightError.
C14_StallCannotBlock ==
  /\ pc # "done" => ENABLED StallNext
  /\ (Finished /\ appId # <<>> /\ stall \in {"source", "sourceBody"})
       => (resp.status = 200 /\ IsSampleBatch(resp.reviews))
  /\ (Finished /\ stage = "keyOk" /\ stall \in {"llm", "llmBody"})
       => (resp.status = 200 /\ "insightError" \in resp.fields /\ resp.reviews = data.reviews)

\* the response of the combined reviews route to a request that runs alone,
\* from the outcomes of its two network calls
ResultAlone(id, key, so, lo) ==
  IF id = <<>> THEN ErrorResponse(400, MsgAppIdRequired)
  ELSE IF FetchThrows(so) \/ NoReviewsFound(so) THEN generateSampleResponse(id)
  ELSE IF DeepSeekKeyMissing(key)
    THEN CombinedResponse(id, TransformData(id, so), Thrown(MsgKeyRequired), {})
  ELSE CombinedResponse(id, TransformData(id, so), generateInsightsFromReviews(lo), {})

\* C15: concurrent requests are independent.  For every interleaving of two
\* requests at their awaits, a request that has returned has returned the
\* result it would return alone for the same appId and the same outcomes of
\* its own network calls, and a step of one request leaves the locals of
\* the other unchanged.
C15_ConcurrentRequestsIndependent ==
  /\ [](\A r \in Requests :
          conc[r].pc = "done"
            => conc[r].resp = ResultAlone(conc[r].appId, apiKey, conc[r].src, conc[r].llm))
  /\ [][\E r \in Requests : conc'[r] = conc[r]]_vars

C15_Witness ==
  /\ conc[1].pc = "done" /\ conc[2].pc = "done"
  /\ conc[1].appId = Id_spotify /\ conc[2].appId = Id_simple
  /\ Len(conc[1].resp.reviews) = 1 /\ Len(conc[2].resp.reviews) = 2
  /\ conc[1].llm.kind = "http" /\ conc[1].llm.status = 401
  /\ conc[2].llm.kind = "http" /\ conc[2].llm.status = 200
  /\ conc[2].resp.insights.t = "object"
  /\ "insightError" \in conc[1].resp.fields

\* the value a raw field must have to be kept by the normalizer
TruthyStr(opt) == opt # <<>> /\ opt[1] # ""
TruthyNum(opt) == opt # <<>> /\ opt[1] # 0

Normalized == flow = "normalizer" /\ pc = "done"

\* C16 as stated: every normalized review has its five fields; a missing
\* field has its default (id the text of the 1-based position, rating 0,
\* text "", author "Anonymous", date the current timestamp) and a field that
\* is present is copied unchanged.
C16_Original_PresentCopied ==
  Normalized =>
    /\ Len(data.reviews) = Len(srcSeen.reviews)
    /\ \A i \in DOMAIN data.reviews :
         LET raw == srcSeen.reviews[i]
             review == data.reviews[i]
         IN  /\ review.id = (IF raw.id = <<>> THEN StringOfNat[i] ELSE raw.id[1])
             /\ review.rating = (IF raw.score = <<>> THEN 0 ELSE raw.score[1])
             /\ review.text = (IF raw.text = <<>> THEN "" ELSE raw.text[1])
             /\ review.author = (IF raw.userName = <<>> THEN "Anonymous" ELSE raw.userName[1])
             /\ review.date = (IF raw.date = <<>> THEN "NOW" ELSE raw.date[1])

\* C16 amended: every normalized review has its five fields; a field that
\* is missing, or present but empty (an empty string, a zero score), has
\* its default, and every other present field is copied unchanged.
C16_DefaultsForMissingOrEmpty ==
  Normalized =>
    /\ Len(data.reviews) = Len(srcSeen.reviews)
    /\ \A i \in DOMAIN data.reviews :
         LET raw == srcSeen.reviews[i]
             review == data.reviews[i]
         IN  /\ DOMAIN review = {"id", "rating", "text", "author", "date"}
             /\ review.id = (IF TruthyStr(raw.id) THEN raw.id[1] ELSE StringOfNat[i])
             /\ review.rating = (IF TruthyNum(raw.score) THEN raw.score[1] ELSE 0)
             /\ review.text = (IF TruthyStr(raw.text) THEN raw.text[1] ELSE "")
             /\ review.author = (IF TruthyStr(raw.userName) THEN raw.userName[1] ELSE "Anonymous")
             /\ review.date = (IF TruthyStr(raw.date) THEN raw.date[1] ELSE "NOW")

C16_Witness ==
  /\ Normalized
  /\ Len(srcSeen.reviews) = 2
  /\ srcSeen.reviews[1] = [id |-> <<>>, score |-> <<5>>, text |-> <<>>,
                           userName |-> <<>>, date |-> <<"2024-01-01">>]
  /\ srcSeen.reviews[2].userName = <<"">>
  /\ data.reviews[1] = [id |-> "1", rating |-> 5, text |-> "", author |-> "Anonymous",
                        date |-> "2024-01-01"]
  /\ data.reviews[2].author = "Anonymous"

\* C17: within one normalized batch the review ids are pairwise distinct
\* whenever the ids that the source supplied are pairwise distinct, whatever
\* subset of the records omits its id.
C17_IdsDistinct ==
  (/\ Normalized
   /\ \A i, j \in DOMAIN srcSeen.reviews :
        (i # j /\ TruthyStr(srcSeen.reviews[i].id) /\ TruthyStr(srcSeen.reviews[j].id))
          => srcSeen.reviews[i].id # srcSeen.reviews[j].id)
    => \A i, j \in DOMAIN data.reviews : i # j => data.reviews[i].id # data.reviews[j].id

\* C18: every normalized review has a rating that is an integer in 0..5,
\* whatever score the source supplied.
C18_RatingInRange ==
  Normalized => \A i \in DOMAIN data.reviews : data.reviews[i].rating \in 0..5

Built == pc = "built"

MinOf(a, b) == IF a < b THEN a ELSE b

\* C19: the sample of the prompt builder is the first min(len(input), cap)
\* reviews of the input in their original order, with cap = 500 in the
\* combined reviews route and the POST insights route and 100 in the GET
\* insights route; it never exceeds the cap.
C19_SampleIsCappedPrefix ==
  Built =>
    LET cap == IF flow \in {"combined", "timed", "post"} THEN 500 ELSE 100
        sample == prompt.reviewsForAnalysis
    IN  /\ Len(sample) = MinOf(Len(data.reviews), cap)
        /\ Len(sample) <= cap
        /\ \A i \in DOMAIN sample : sample[i] = data.reviews[i]

C19_Witness ==
  /\ Built
  /\ flow = "insights"
  /\ Len(data.reviews) = 102
  /\ Len(prompt.reviewsForAnalysis) = 100
  /\ prompt.reviewsForAnalysis[100].id = "100"

\* C20: the five bucket counts sum to the number of sampled reviews whose
\* rating is in 1..5, bucket r counts exactly the sampled reviews with
\* rating r, and a review with rating 0 or out of range is counted in no
\* bucket and stays in the sample.
C20_HistogramCountsRatings ==
  Built =>
    LET sample == prompt.reviewsForAnalysis
        counts == prompt.ratingCounts
    IN  /\ counts[1] + counts[2] + counts[3] + counts[4] + counts[5]
             = Cardinality({i \in DOMAIN sample : sample[i].rating \in 1..5})
        /\ \A r \in 1..5 : counts[r] = Cardinality({i \in DOMAIN sample : sample[i].rating = r})
        /\ \A i \in 1..MinOf(Len(data.reviews), CapOf(flow)) :
             data.reviews[i].rating \notin 1..5 => sample[i] = data.reviews[i]

C20_Witness ==
  /\ Built
  /\ Len(prompt.reviewsForAnalysis) = 3
  /\ [i \in 1..3 |-> prompt.reviewsForAnalysis[i].rating] = <<5, 7, 0 - 1>>
  /\ prompt.ratingCounts = <<0, 0, 0, 0, 1>>

\* the scenario: com.spotify.music with three fetched reviews rated 5, 5, 1
ScenarioBuilt ==
  /\ Built
  /\ appId = Id_spotify
  /\ Len(data.reviews) = 3
  /\ [i \in 1..3 |-> data.reviews[i].rating] = <<5, 5, 1>>

SpotifyMusic == <<"S","p","o","t","i","f","y"," ","M","u","s","i","c">>

\* C21 as stated: in the scenario the name is "Spotify Music", the prompt
\* renders the mean rating as 3.67, and the histogram is
\* {5:2, 4:0, 3:0, 2:0, 1:1}.
C21_Original_MeanRendered367 ==
  ScenarioBuilt =>
    /\ prompt.appName = SpotifyMusic
    /\ prompt.avgText = "3.67"
    /\ prompt.ratingCounts = <<1, 0, 0, 0, 2>>

\* C21 amended: in the scenario the name is "Spotify Music", the mean rating
\* is 11/3 and the prompt renders it to one decimal, 3.7, and the histogram
\* is {5:2, 4:0, 3:0, 2:0, 1:1}.
C21_ScenarioMeanRendered37 ==
  ScenarioBuilt =>
    /\ prompt.appName = SpotifyMusic
    /\ prompt.avgRating = [num |-> 11, den |-> 3]
    /\ prompt.avgText = "3.7"
    /\ prompt.ratingCounts = <<1, 0, 0, 0, 2>>

C21_Witness ==
  /\ ScenarioBuilt
  /\ flow = "combined"
  /\ prompt.avgText = "3.7"
  /\ Len(prompt.reviewsForAnalysis) = 3

\* the publisher table: a key, whether the publisher must equal it or only
\* contain it, and the publisher name
PublisherTable ==
  <<[key |-> <<"c","o","m",".","g","o","o","g","l","e">>, exact |-> TRUE, name |-> <<"G","o","o","g","l","e">>],
    [key |-> <<"c","o","m",".","f","a","c","e","b","o","o","k">>, exact |-> TRUE, name |-> <<"F","a","c","e","b","o","o","k">>],
    [key |-> <<"c","o","m",".","a","m","a","z","o","n">>, exact |-> TRUE, name |-> <<"A","m","a","z","o","n">>],
    [key |-> <<"c","o","m",".","s","p","o","t","i","f","y">>, exact |-> TRUE, name |-> <<"S","p","o","t","i","f","y">>],
    [key |-> <<"c","o","m",".","n","e","t","f","l","i","x">>, exact |-> TRUE, name |-> <<"N","e","t","f","l","i","x">>],
    [key |-> <<"i","n","s","t","a","g","r","a","m">>, exact |-> FALSE, name |-> <<"I","n","s","t","a","g","r","a","m">>],
    [key |-> <<"w","h","a","t","s","a","p","p">>, exact |-> FALSE, name |-> <<"W","h","a","t","s","A","p","p">>],
    [key |-> <<"t","w","i","t","t","e","r">>, exact |-> FALSE, name |-> <<"T","w","i","t","t","e","r">>],
    [key |-> <<"x",".","c","o","m">>, exact |-> FALSE, name |-> <<"T","w","i","t","t","e","r">>],
    [key |-> <<"t","i","k","t","o","k">>, exact |-> FALSE, name |-> <<"T","i","k","T","o","k">>],
    [key |-> <<"s","n","a","p","c","h","a","t">>, exact |-> FALSE, name |-> <<"S","n","a","p","c","h","a","t">>],
    [key |-> <<"c","o","m",".","d","u","o","l","i","n","g","o">>, exact |-> TRUE, name |-> <<"D","u","o","l","i","n","g","o">>]>>

PublisherMatches(publisher, e) ==
  IF e.exact THEN publisher = e.key ELSE Includes(publisher, e.key)

\* the identifier is publisher "." trailing, with no dot in trailing
SplitsAs(id, publisher, trailing) ==
  /\ id = publisher \o <<".">> \o trailing
  /\ \A i \in DOMAIN trailing : trailing[i] # "."

Prefixes(id) == {SubSeq(id, 1, n) : n \in 0..Len(id)}
Suffixes(id) == {SubSeq(id, n, Len(id)) : n \in 1..(Len(id) + 1)}

\* the name the rule of the claim gives: duoAlone says whether the entry
\* com.duolingo yields its name alone, dotEnd whether an identifier that
\* ends in a dot is capitalized as a whole
RuleName(id, duoAlone, dotEnd) ==
  IF \A i \in DOMAIN id : id[i] # "." THEN capitalizeWords(id)
  ELSE LET publisher == CHOOSE q \in Prefixes(id) : \E t \in Suffixes(id) : SplitsAs(id, q, t)
           trailing == CHOOSE t \in Suffixes(id) : SplitsAs(id, publisher, t)
           hits == {k \in DOMAIN PublisherTable : PublisherMatches(publisher, PublisherTable[k])}
           first == CHOOSE k \in hits : \A j \in hits : k <= j
       IN  IF dotEnd /\ trailing = <<>> THEN capitalizeWords(id)
           ELSE IF hits = {} THEN capitalizeWords(trailing)
           ELSE IF duoAlone /\ PublisherTable[first].key = <<"c","o","m",".","d","u","o","l","i","n","g","o">>
             THEN PublisherTable[first].name
           ELSE PublisherTable[first].name \o <<" ">> \o capitalizeWords(trailing)

\* C22 as stated: an identifier without a dot yields the capitalize-each-word
\* form of the whole string; otherwise the trailing segment is capitalized
\* and prefixed by the publisher name when the preceding segments match the
\* publisher table, and unmatched publishers yield only the capitalized
\* trailing segment.
C22_Original_TrailingSegmentPrefixed ==
  Normalized => data.appName = RuleName(appId, FALSE, FALSE)

\* C22 amended: an identifier without a dot, or one that ends in a dot,
\* yields the capitalize-each-word form of the whole string; otherwise the
\* first matching entry of the publisher table decides: its name followed by
\* the capitalized trailing segment, or "Duolingo" alone for com.duolingo;
\* unmatched publishers yield only the capitalized trailing segment.
\* com.duolingo gives "Duolingo", com.google.maps "Google Maps" and
\* simpleapp "Simpleapp".
C22_ResolverRule ==
  Normalized =>
    /\ data.appName = RuleName(appId, TRUE, TRUE)
    /\ appId = <<"c","o","m",".","d","u","o","l","i","n","g","o">> => data.appName = <<"D","u","o","l","i","n","g","o">>
    /\ appId = <<"c","o","m",".","g","o","o","g","l","e",".","m","a","p","s">> => data.appName = <<"G","o","o","g","l","e"," ","M","a","p","s">>
    /\ appId = Id_simple => data.appName = <<"S","i","m","p","l","e","a","p","p">>

C22_Witness ==
  /\ Normalized
  /\ appId = <<"c","o","m",".","g","o","o","g","l","e",".">>
  /\ data.appName = <<"C","o","m"," ","G","o","o","g","l","e"," ">>

\* a well-formed object whose string is str
ObjectOf(str) == [t |-> "object", s |-> str]

\* JSON.stringify of it
Stringify(x) == <<"OO">> \o x.s \o <<"OC">>

Parsed == pc = "done" /\ llmSeen.kind = "http" /\ llmSeen.env = "content"

\* C23: for every well-formed object x, with any strings (bold markers and
\* white space included), cleaning and parsing JSON.stringify(x) yields an
\* object equal to x.
C23_ParserRoundTrip ==
  \A str \in SeqsUpTo({"X", "SP", "BB"}, MaxText) :
    (Parsed /\ llmSeen.content = Stringify(ObjectOf(str)))
      => (resp.status = 200 /\ resp.insights = ObjectOf(str))

\* the opening and closing fences of the claim: with or without the json
\* tag, with or without white space around them or a line feed after them
OpeningFences == {<<>>, <<"FO">>, <<"FB">>, <<"SP", "FO">>}
ClosingFences == {<<>>, <<"FC">>, <<"FC", "NL">>, <<"FC", "SP">>}

\* C25: for every valid JSON object text j, j wrapped in a code fence (with
\* or without the json tag, white space or a trailing line feed) parses to
\* the same object as j alone.
C25_FencesRemoved ==
  \A str \in SeqsUpTo({"X", "SP"}, MaxText) : \A a \in OpeningFences : \A b \in ClosingFences :
    (Parsed /\ llmSeen.content = a \o Stringify(ObjectOf(str)) \o b)
      => (resp.status = 200 /\ resp.insights = ObjectOf(str))

\* C24: within one request to the combined reviews route at most one request
\* is sent to the LLM endpoint, only after the review fetch has completed
\* successfully with at least one review and the credential check has
\* passed, and never while the review fetch is still awaited.
C24_OneLlmRequestAfterFetch ==
  CombinedRoute =>
    /\ Len(llmRequests) <= 1
    /\ pc \in {"start", "awaitSource"} => llmRequests = <<>>
    /\ llmRequests # <<>> =>
         /\ srcCalls = 1
         /\ FetchedReviews
         /\ ~KeyAbsent
         /\ pc \in {"awaitLLM", "done"}
         /\ Len(llmRequests[1].reviews) >= 1

C24_Witness ==
  /\ CombinedRoute
  /\ Finished
  /\ Len(llmRequests) = 1
  /\ llmSeen.kind = "http"
  /\ FetchedReviews

\* C26: the mean rating is never computed by dividing by zero: when the
\* prompt is built either the sample is non-empty or the mean is 0, and the
\* POST insights route, which divides unguarded, never builds a prompt from
\* an empty reviews array.
C26_NoDivisionByZero ==
  Built =>
    /\ prompt.avgRating.den # 0
    /\ prompt.avgText # "NaN"
    /\ prompt.reviewsForAnalysis = <<>> =>
         (flow # "post" /\ prompt.avgRating = [num |-> 0, den |-> 1])
    /\ prompt.reviewsForAnalysis # <<>> =>
         prompt.avgRating.den = Len(prompt.reviewsForAnalysis)

C26_Witness ==
  /\ flow = "post"
  /\ pc = "done"
  /\ data.reviews = <<>>
  /\ resp.status = 400
  /\ prompt = NoPrompt

\* C27: one submitted app ID leads to at most one run of loadInsights, and
\* so to at most 3 requests to /api/insights: a run that ends without
\* insights is not followed by another run.
C27_OneLoadPerSubmit ==
  /\ page.loads <= 1
  /\ (page.pc = "loadingInsights" => rw.requests <= PageRetries)

\* C28: for every interleaving of a second submit with an insight load still
\* in flight for the first app, the insights displayed belong to the same app
\* ID as the displayed reviews, and a late response for the earlier app does
\* not suppress the load for the later app's reviews.
C28_InsightsMatchReviews ==
  (page.reviewsData /\ page.insights) => page.insightsOf = page.reviewsOf

SubmitFinished == page.pc = "rendered"

SubmitFailed == page.seen.kind = "reject" \/ ~Ok(page.seen.response.status)

\* C29: after handleSubmit finishes isLoading is false on every path; if the
\* request failed (network error or non-OK response) then reviewsData,
\* insights and appName are cleared and error is set; if the response carried
\* an insightError then the reviews and the app name are stored, insights is
\* null and error equals that insightError.
C29_SubmitOutcomes ==
  SubmitFinished =>
    /\ ~page.isLoading
    /\ SubmitFailed =>
         /\ ~page.reviewsData.present
         /\ page.insights = JsonNull
         /\ page.appName = <<>>
         /\ page.error # <<>>
    /\ (~SubmitFailed /\ page.seen.readable /\ page.seen.response.insightError # <<>>) =>
         /\ page.reviewsData.present
         /\ page.reviewsData.reviews = page.seen.response.reviews
         /\ page.reviewsData.reviews # <<>>
         /\ page.appName # <<>>
         /\ page.insights = JsonNull
         /\ page.error = page.seen.response.insightError

C29_Witness ==
  /\ SubmitFinished
  /\ page.submits = 2
  /\ page.seen.kind = "http"
  /\ page.seen.response.insightError # <<>>
  /\ page.reviewsData.present
  /\ page.error = page.seen.response.insightError

\* C30: in the timed variant no abort timer armed for a network call is
\* still pending once the handler has returned: it is cancelled on every
\* exit path of the review fetch and of the LLM call.
C30_NoTimerPendingAfterReturn ==
  (flow = "timed" /\ Finished) => timers = {}
====
